---------------------------- MODULE Spec2Model ----------------------------
(***************************************************************************)
(* NativeAgent (src-tauri/src/agent/native_agent.rs): the session store    *)
(* and its operations, chat, the streaming chat path chat_stream with its  *)
(* hand-written server-sent-event decoder, and the forwarder of the stream *)
(* commands (src-tauri/src/commands) that reads chat_stream's channel.     *)
(*                                                                         *)
(* Text is a sequence of atoms.  An atom stands for a run of bytes that    *)
(* holds no newline and that the decoder never looks inside: the line      *)
(* prefix "data:", one space, one newline, the sentinel "[DONE]", and the  *)
(* payloads (a JSON document with a given choices[0].delta.content, a JSON *)
(* document without that field, a text that is not JSON).  The transport   *)
(* may cut the byte feed into chunks between any two atoms.                *)
(*                                                                         *)
(* Spec runs one chat_stream call over every short body; SeqSpec one       *)
(* caller of chat, call after call; StoreSpec a chat call, a chat_stream   *)
(* call and the store operations in any order; ClockSpec the writes to a   *)
(* session while the clock runs; FwdSpec chat_stream with the forwarder    *)
(* on the receiving end of its channel; LifeSpec one caller of chat,       *)
(* chat_stream and the store operations, one after another, while the      *)
(* clock runs; TurnSpec one caller of chat with and without images;        *)
(* BuildSpec the request builders and as_text applied to arguments of      *)
(* their types; CmdSpec NativeAgentState and the commands of               *)
(* native_agent_cmd.rs; GooseSpec GooseAgentState.                         *)
(***************************************************************************)
EXTENDS Integers, Sequences, FiniteSets, TLC

\* Number of lines the server writes to one response body, at most.
MaxLines == 2

\* Number of chat calls the caller makes, at most.
MaxCalls == 2

None == "None"

-----------------------------------------------------------------------------
(* Atoms of the byte feed *)

NL == "\n"
SP == " "
DATA == "data:"
DONE == "[DONE]"
JsonA == "{\"choices\":[{\"delta\":{\"content\":\"A\"}}]}"
JsonB == "{\"choices\":[{\"delta\":{\"content\":\"B\"}}]}"
JsonEmpty == "{\"choices\":[{\"delta\":{\"content\":\"\"}}]}"
JsonNoContent == "{\"choices\":[{\"delta\":{}}]}"
Garbage == "{not json"

\* The lines a server may write: payload lines with and without the space
\* after the colon, the sentinel in both forms, and payloads the decoder
\* cannot use.  One sentinel line carries spaces around the payload.
LineForms ==
    { <<DATA, SP, JsonA>>, <<DATA, SP, JsonB>>, <<DATA, SP, DONE>>,
      <<DATA, SP, SP, DONE, SP>>, <<DATA, DONE>>, <<DATA, JsonA>>,
      <<DATA, SP, Garbage>>, <<DATA, SP, JsonNoContent>>, <<DATA, SP, JsonEmpty>> }

\* A response body as the server writes it: lines, each followed by sep
\* newlines.  Only the last line may lack its newline.
Entry == [line : LineForms, sep : 0..2]

Scripts ==
    UNION { { s \in [1..n -> Entry] : \A i \in 1..(n-1) : s[i].sep # 0 } : n \in 0..MaxLines }

RECURSIVE Repeat(_, _)
Repeat(a, n) == IF n = 0 THEN <<>> ELSE <<a>> \o Repeat(a, n - 1)

RECURSIVE Render(_)
Render(s) ==
    IF s = <<>> THEN <<>>
    ELSE Head(s).line \o Repeat(NL, Head(s).sep) \o Render(Tail(s))

-----------------------------------------------------------------------------
(* types.rs *)

Text(s) == [kind |-> "Text", text |-> s, parts |-> <<>>]
Parts(ps) == [kind |-> "Parts", text |-> <<>>, parts |-> ps]
TextPart(s) == [type |-> "text", text |-> s, url |-> <<>>, detail |-> None]

\* ContentPart::ImageUrl { image_url: ImageUrl { url, detail } }
ImageUrlPart(u, detail) == [type |-> "image_url", text |-> <<>>, url |-> u, detail |-> detail]
ImagePart(u) == ImageUrlPart(u, None)

\* Option<Vec<ToolCall>>
NoToolCalls == [some |-> FALSE, list |-> <<>>]
SomeToolCalls(l) == [some |-> TRUE, list |-> l]

FunctionCall(name, arguments) == [name |-> name, arguments |-> arguments]
ToolCall(id, call_type, function) == [id |-> id, call_type |-> call_type, function |-> function]

TextsOf(ps) == [i \in 1..Len(ps) |-> ps[i].text]

\* Mutant of JoinText: the texts one after another, nothing between them.
RECURSIVE JoinText_NoSeparator(_)
JoinText_NoSeparator(ps) ==
    IF ps = <<>> THEN <<>> ELSE Head(ps) \o JoinText_NoSeparator(Tail(ps))

\* Vec<String>::join("\n")
RECURSIVE JoinText(_)
JoinText(ps) ==
    IF ps = <<>> THEN <<>>
    ELSE IF Len(ps) = 1 THEN Head(ps)
    ELSE Head(ps) \o <<NL>> \o JoinText(Tail(ps))

\* MessageContent::as_text
as_text(c) ==
    IF c.kind = "Text" THEN c.text
    ELSE JoinText(TextsOf(SelectSeq(c.parts, LAMBDA p : p.type = "text")))

TextDelta(t) == [type |-> "text_delta", text |-> t]
DoneEvent == [type |-> "done", text |-> <<>>]
ErrorEvent == [type |-> "error", text |-> <<>>]


\* AgentMessage, as add_message_to_session builds it
AgentMessage(role, content, now) ==
    [role |-> role, content |-> content, timestamp |-> now,
     tool_calls |-> NoToolCalls, tool_call_id |-> None]

\* format!("data:{};base64,{}", img.media_type, img.data)
DataUrl(img) == <<"data:", img.media_type, ";base64,", img.data>>

-----------------------------------------------------------------------------
(* The string operations the decoder uses, on atoms *)

IsBoundaryAt(buf, i) == buf[i] = NL /\ buf[i + 1] = NL

\* buffer.find("\n\n"): the offset of the first blank-line boundary, -1 for None
find(buf) ==
    IF \E i \in 1..(Len(buf) - 1) : IsBoundaryAt(buf, i)
    THEN (CHOOSE i \in 1..(Len(buf) - 1) :
              /\ IsBoundaryAt(buf, i)
              /\ \A j \in 1..(i - 1) : ~IsBoundaryAt(buf, j)) - 1
    ELSE -1

\* str::lines(): split at each newline; a final newline adds no empty line.
\* ends holds the position after each line: its newline, or one past the
\* text for a last line without a newline.
lines(s) ==
    LET ends == {k \in 1..Len(s) : s[k] = NL}
                \cup (IF s # <<>> /\ s[Len(s)] # NL THEN {Len(s) + 1} ELSE {})
        EndOf(i) == CHOOSE k \in ends : Cardinality({j \in ends : j < k}) = i - 1
        StartOf(i) == IF i = 1 THEN 1 ELSE EndOf(i - 1) + 1
    IN  [i \in 1..Cardinality(ends) |-> SubSeq(s, StartOf(i), EndOf(i) - 1)]

\* str::strip_prefix
strip_prefix(s, prefix) ==
    IF Len(s) >= Len(prefix) /\ SubSeq(s, 1, Len(prefix)) = prefix
    THEN [some |-> TRUE, rest |-> SubSeq(s, Len(prefix) + 1, Len(s))]
    ELSE [some |-> FALSE, rest |-> <<>>]

RECURSIVE trim_start(_)
trim_start(s) == IF s # <<>> /\ Head(s) = SP THEN trim_start(Tail(s)) ELSE s

RECURSIVE trim_end(_)
trim_end(s) ==
    IF s # <<>> /\ s[Len(s)] = SP THEN trim_end(SubSeq(s, 1, Len(s) - 1)) ELSE s

\* str::trim
trim(s) == trim_end(trim_start(s))

\* The prefix a line must start with to be read as a payload
DataPrefix == <<DATA, SP>>

\* line.strip_prefix("data: ")
StripData(line) == strip_prefix(line, DataPrefix)

\* Mutant of IsSentinel: the comparison without trim().
IsSentinel_NoTrim(data) == data = <<DONE>>

\* data.trim() == "[DONE]"
IsSentinel(data) == trim(data) = <<DONE>>

\* serde_json::from_str::<Value>(data), then
\* .get("choices").get(0).get("delta").get("content").as_str():
\* the parser skips white space around the document and rejects anything else.
DeltaOf(data) ==
    LET doc == trim(data) IN
    IF Len(doc) # 1 THEN [some |-> FALSE, text |-> <<>>]
    ELSE IF doc[1] = JsonA THEN [some |-> TRUE, text |-> <<"A">>]
    ELSE IF doc[1] = JsonB THEN [some |-> TRUE, text |-> <<"B">>]
    ELSE IF doc[1] = JsonEmpty THEN [some |-> TRUE, text |-> <<>>]
    ELSE [some |-> FALSE, text |-> <<>>]

\* Mutant of DeltaEvent: the text so far in place of the increment.
DeltaEvent_Cumulative(delta, full) == TextDelta(full)

\* The event sent for one increment
DeltaEvent(delta, full) == TextDelta(delta)

-----------------------------------------------------------------------------
(* The session store *)

\* Mutant of add_message_to_session: the content as given, the images dropped.
add_message_to_session_TextOnly(store, session_id, role, content, images, now) ==
    IF session_id \notin DOMAIN store THEN store
    ELSE [store EXCEPT ![session_id] =
             [store[session_id] EXCEPT
                 !.messages = Append(@, AgentMessage(role, content, now)),
                 !.updated_at = now]]

\* Mutant of add_message_to_session: the message is put before the others.
add_message_to_session_Prepend(store, session_id, role, content, images, now) ==
    IF session_id \notin DOMAIN store THEN store
    ELSE [store EXCEPT ![session_id] =
             [store[session_id] EXCEPT
                 !.messages = <<AgentMessage(role, content, now)>> \o @,
                 !.updated_at = now]]

\* Mutant of add_message_to_session: an unknown id gets a session of its own.
add_message_to_session_Upsert(store, session_id, role, content, images, now) ==
    LET was == IF session_id \in DOMAIN store THEN store[session_id].messages ELSE <<>>
    IN  [k \in DOMAIN store \cup {session_id} |->
            IF k = session_id
            THEN [id |-> k, model |-> "claude-sonnet-4-20250514",
                  messages |-> Append(was, AgentMessage(role, content, now)),
                  system_prompt |-> None, created_at |-> now, updated_at |-> now]
            ELSE store[k]]

\* add_message_to_session: under the write lock; nothing for an unknown id
add_message_to_session(store, session_id, role, content, images, now) ==
    IF session_id \notin DOMAIN store THEN store
    ELSE LET final_content ==
                 IF images.some
                 THEN Parts(<<TextPart(as_text(content))>>
                            \o [i \in 1..Len(images.list) |->
                                   ImagePart(DataUrl(images.list[i]))])
                 ELSE content
             session == store[session_id]
         IN  [store EXCEPT ![session_id] =
                 [session EXCEPT !.messages = Append(@, AgentMessage(role, final_content, now)),
                                 !.updated_at = now]]

-----------------------------------------------------------------------------
(* The request chat and chat_stream build *)

\* ChatMessage of models::openai
ChatMessage(role, content, tool_calls, tool_call_id) ==
    [role |-> role, content |-> content, tool_calls |-> tool_calls,
     tool_call_id |-> tool_call_id]

\* Mutant of convert_to_chat_message: role and content only.
convert_to_chat_message_NoTools(msg) ==
    ChatMessage(msg.role, msg.content, NoToolCalls, None)

\* convert_to_chat_message: the content part by part, the tool calls call by
\* call and field by field
convert_to_chat_message(msg) ==
    LET content ==
            IF msg.content.kind = "Text" THEN Text(msg.content.text)
            ELSE Parts([i \in 1..Len(msg.content.parts) |->
                          IF msg.content.parts[i].type = "text"
                          THEN TextPart(msg.content.parts[i].text)
                          ELSE ImageUrlPart(msg.content.parts[i].url,
                                            msg.content.parts[i].detail)])
        tool_calls ==
            IF msg.tool_calls.some
            THEN SomeToolCalls([i \in 1..Len(msg.tool_calls.list) |->
                     LET tc == msg.tool_calls.list[i]
                     IN  ToolCall(tc.id, tc.call_type,
                                  FunctionCall(tc.function.name, tc.function.arguments))])
            ELSE NoToolCalls
    IN  ChatMessage(msg.role, content, tool_calls, msg.tool_call_id)

\* The message of the current user input, with its images as data URLs
UserChatMessage(user_message, images) ==
    IF images.some
    THEN ChatMessage("user",
                     Parts(<<TextPart(user_message)>>
                           \o [i \in 1..Len(images.list) |->
                                  ImagePart(DataUrl(images.list[i]))]),
                     NoToolCalls, None)
    ELSE ChatMessage("user", Text(user_message), NoToolCalls, None)

\* A prompt is one atom
SystemChatMessage(prompt) == ChatMessage("system", Text(<<prompt>>), NoToolCalls, None)

\* Mutant of build_messages_with_history: the prompt of the configuration
\* goes before the prompt of the session.
build_messages_with_history_GlobalFirst(cfg, sess, user_message, images) ==
    LET system_prompt == IF cfg.system_prompt # None THEN cfg.system_prompt
                         ELSE sess.system_prompt
    IN  (IF system_prompt # None THEN <<SystemChatMessage(system_prompt)>> ELSE <<>>)
        \o [i \in 1..Len(sess.messages) |-> convert_to_chat_message(sess.messages[i])]
        \o <<UserChatMessage(user_message, images)>>

\* Mutant of build_messages_with_history: the stored messages are left out.
build_messages_with_history_NoHistory(cfg, sess, user_message, images) ==
    (IF cfg.system_prompt # None THEN <<SystemChatMessage(cfg.system_prompt)>> ELSE <<>>)
    \o <<UserChatMessage(user_message, images)>>

\* build_messages_with_history: the system prompt of the session, else of
\* the configuration; the stored messages in order; the user input
build_messages_with_history(cfg, sess, user_message, images) ==
    LET system_prompt == IF sess.system_prompt # None THEN sess.system_prompt
                         ELSE cfg.system_prompt
    IN  (IF system_prompt # None THEN <<SystemChatMessage(system_prompt)>> ELSE <<>>)
        \o [i \in 1..Len(sess.messages) |-> convert_to_chat_message(sess.messages[i])]
        \o <<UserChatMessage(user_message, images)>>

\* build_single_messages: the system prompt of the configuration, the user input
build_single_messages(cfg, user_message, images) ==
    (IF cfg.system_prompt # None THEN <<SystemChatMessage(cfg.system_prompt)>> ELSE <<>>)
    \o <<UserChatMessage(user_message, images)>>

\* What chat returns: Err(String) or Ok(NativeChatResponse)
NoError == [some |-> FALSE, text |-> <<>>]
SomeError(t) == [some |-> TRUE, text |-> t]
NativeChatResponse(content, success, error) ==
    [content |-> content, success |-> success, error |-> error]
Err(message) ==
    [kind |-> "Err", message |-> message, response |-> NativeChatResponse(<<>>, FALSE, NoError)]
Ok(response) == [kind |-> "Ok", message |-> <<>>, response |-> response]

NoResult == [kind |-> None, message |-> <<>>, response |-> NativeChatResponse(<<>>, FALSE, NoError)]

\* What arrives for the request: no response, a response with a status that
\* is not a success, a success with a body that cannot be read, a success.
NoAnswer == [kind |-> None, status |-> None, body |-> <<>>, content |-> <<>>]
SendError == [NoAnswer EXCEPT !.kind = "send_failed"]
StatusAnswer(status, body) == [NoAnswer EXCEPT !.kind = "status", !.status = status, !.body = body]
InvalidBody == [NoAnswer EXCEPT !.kind = "invalid_body", !.status = "200 OK"]
SuccessAnswer(content) == [NoAnswer EXCEPT !.kind = "success", !.status = "200 OK", !.content = content]

\* Mutant of ApiError: the status alone.
ApiError_NoBody(status, body) == <<"API error (", status, "): ">>

\* format!("API .. ({}): {}", status, body); the fixed words are one atom each
ApiError(status, body) == <<"API error (", status, "): ">> \o body

-----------------------------------------------------------------------------
(* State *)

VARIABLES
    sessions,       \* NativeAgent.sessions: session id -> AgentSession
    clock,          \* chrono::Utc::now()
    script,         \* the lines the server writes to the response body
    feed,           \* the response body: Render(script)
    pos,            \* how much of feed the transport has delivered
    request,        \* chat_stream's NativeChatRequest
    pc,             \* where chat_stream stands
    session,        \* chat_stream's snapshot of the session (None: no session)
    buffer,         \* chat_stream's local buffer
    full_content,   \* chat_stream's local full_content
    event_lines,    \* the lines of the block being scanned that are still to come
    tx,             \* the events sent on the output channel, in order
    ret,            \* chat_stream's return value: None while running, "Ok", "Err"
    exit,           \* the return statement taken
    config,         \* NativeAgent.config
    lock,           \* the guards of NativeAgent.sessions alive between two steps
    chat,           \* chat's locals, the answer of the endpoint, the return value
    calls,          \* the number of chat calls made so far
    chat_log,       \* what the caller of chat saw: request, built messages, result
    last_op,        \* the last store operation called and what it returned
    ops,            \* the number of store operations called so far
    fwd,            \* the forwarder of the stream command and its receiver
    arg,            \* the arguments a builder or as_text is applied to
    out,            \* the function applied to arg and what it returned
    agent,          \* NativeAgentState.agent: Option<NativeAgent>, its store is sessions
    app,            \* AppState: running, running_api_key
    goose,          \* GooseAgentState.agent and the init calls that await the manager
    cmd,            \* the last command or state method that returned, and its result
    cmds,           \* the number of commands and state methods called so far
    detached        \* the store of an agent that init or reset replaced while a chat
                    \* call shared it, and the number of that call

\* The Tauri states, the commands, and the arguments of the pure functions
cmdVars == <<arg, out, agent, app, goose, cmd, cmds>>

vars == <<sessions, clock, script, feed, pos, request, pc, session, buffer,
          full_content, event_lines, tx, ret, exit, config, lock, chat, calls,
          chat_log, last_op, ops, fwd, cmdVars, detached>>

\* What no step of chat_stream writes
envVars == <<clock, script, feed, request, config, lock, chat, calls, chat_log,
             last_op, ops, fwd, cmdVars, detached>>

\* chat_stream's locals and its channel
streamVars == <<pos, pc, session, buffer, full_content, event_lines, tx, ret, exit>>

\* What the server and the caller of chat_stream chose
inputVars == <<script, feed, request>>

NoImages == [some |-> FALSE, list |-> <<>>]
SomeImages(l) == [some |-> TRUE, list |-> l]
Png == [data |-> "QUJD", media_type |-> "image/png"]

UserText == <<"h", "i">>

NativeChatRequest(sid, imgs) == [session_id |-> sid, message |-> UserText, images |-> imgs]

\* Without a session, with the stored session (with and without an image),
\* and with an id the store does not hold.
Requests ==
    { NativeChatRequest(None, NoImages), NativeChatRequest("s1", NoImages),
      NativeChatRequest("s1", SomeImages(<<Png>>)), NativeChatRequest("s9", NoImages) }

\* A store with a session that holds one earlier turn and an empty session;
\* "s9" is an id the store does not hold.
InitialStore ==
    [id \in {"s1", "s2"} |->
        [id |-> id, model |-> "claude-sonnet-4-20250514",
         messages |-> IF id = "s1"
                      THEN <<AgentMessage("user", Text(<<"q">>), 0),
                             AgentMessage("assistant", Text(<<"r">>), 0)>>
                      ELSE <<>>,
         system_prompt |-> None, created_at |-> 0, updated_at |-> 0]]

\* HashMap::new()
EmptyStore == [id \in {} |-> None]

\* No store was replaced under a chat call
NotDetached == [call |-> 0, store |-> EmptyStore]

\* AgentConfig::default(), of which the requests built use these two fields
DefaultConfig == [model |-> "claude-sonnet-4-20250514", system_prompt |-> None]

NoLock == [readers |-> {}, writer |-> None]

\* RwLock: read() waits for the writer, write() for the writer and the readers
ReadLockFree == lock.writer = None
WriteLockFree == lock.writer = None /\ lock.readers = {}

ChatIdle ==
    [pc |-> "idle", request |-> None, session |-> None, messages |-> <<>>,
     answer |-> NoAnswer, content |-> <<>>, ret |-> NoResult]

\* The channel of capacity 100 and its receiver, before the first recv()
FwdIdle == [pc |-> "recv", received |-> 0, ui |-> <<>>, rx_open |-> TRUE]

NoOp == [op |-> None, id |-> None, result |-> None]

\* No builder applied
NoArg == [fn |-> None]
NoOut == [fn |-> None, value |-> <<>>]

\* Option<NativeAgent>: NativeAgent::new(base_url, api_key), or None
NoAgent == [some |-> FALSE, base_url |-> None, api_key |-> None]
SomeAgent(base_url, api_key) == [some |-> TRUE, base_url |-> base_url, api_key |-> api_key]

\* format!("http://127.0.0.1:{}", port), and the key of the running server
BaseUrl == "http://127.0.0.1:port"
ApiKey == "key"

\* AppState with the server running and its key set
AppRunning == [running |-> TRUE, running_api_key |-> ApiKey]

\* GooseAgentState::new(): no manager, no init under way
NoManager == [some |-> FALSE, provider_name |-> None, model_name |-> None]
GooseNew == [agent |-> NoManager, inits |-> {}]

\* name, err: the last command or state method that returned and the error
\* it returned (None: no error); at: where the chat command under way stands
NoCmd == [name |-> None, err |-> None, at |-> None]

PureIdle == arg = NoArg /\ out = NoOut

\* A NativeAgent in use and the server running, no command called
CmdIdle ==
    /\ agent = SomeAgent(BaseUrl, ApiKey)
    /\ app = AppRunning
    /\ goose = GooseNew
    /\ cmd = NoCmd
    /\ cmds = 0

\* No guard alive, no chat call made, no store operation called
CoreIdle ==
    /\ lock = NoLock
    /\ chat = ChatIdle
    /\ calls = 0
    /\ chat_log = <<>>
    /\ last_op = NoOp
    /\ ops = 0
    /\ fwd = FwdIdle
    /\ detached = NotDetached

RestInit == CoreIdle /\ PureIdle /\ CmdIdle

Init ==
    /\ sessions = InitialStore
    /\ clock = 0
    /\ script \in Scripts
    /\ feed = Render(script)
    /\ pos = 0
    /\ request \in Requests
    /\ pc = "idle"
    /\ session = None
    /\ buffer = <<>>
    /\ full_content = <<>>
    /\ event_lines = <<>>
    /\ tx = <<>>
    /\ ret = None
    /\ exit = None
    /\ config = DefaultConfig
    /\ RestInit

-----------------------------------------------------------------------------
(* chat_stream *)

\* mpsc::channel::<StreamEvent>(100)
ChannelCap == 100

\* The events in the channel that no recv() has taken yet
Queued == Len(tx) - fwd.received

\* tx.send(e).await: waits while the channel is full and its receiver is
\* alive; with the receiver dropped it fails at once, and the error is ignored.
CanSend == ~fwd.rx_open \/ Queued < ChannelCap

Send(e) ==
    /\ CanSend
    /\ tx' = IF fwd.rx_open THEN Append(tx, e) ELSE tx

\* Where control goes from the [DONE] branch and from the end of the feed:
\* to the two add_message_to_session calls when a session id was given.
Finalize(path) ==
    IF request.session_id # None THEN path \o "_user" ELSE path \o "_send"

\* Mutant of Start: the read guard of the snapshot lives on after the statement.
Start_GuardKept ==
    /\ pc = "idle"
    /\ request.session_id # None => ReadLockFree
    /\ session' = IF request.session_id # None /\ request.session_id \in DOMAIN sessions
                  THEN sessions[request.session_id] ELSE None
    /\ lock' = [lock EXCEPT !.readers = @ \cup {"chat_stream"}]
    /\ pc' = "send"
    /\ UNCHANGED <<sessions, pos, buffer, full_content, event_lines, tx, ret, exit, clock,
                   inputVars, config, chat, calls, chat_log, last_op, ops, fwd, cmdVars,
                   detached>>

\* Lines 386-428: the snapshot under the read lock, the request is built and sent.
Start ==
    /\ pc = "idle"
    /\ request.session_id # None => ReadLockFree
    /\ session' = IF request.session_id # None /\ request.session_id \in DOMAIN sessions
                  THEN sessions[request.session_id] ELSE None
    /\ pc' = "send"
    /\ UNCHANGED <<sessions, pos, buffer, full_content, event_lines, tx, ret, exit, envVars>>

\* Line 429: send() fails (connection, connect timeout, serialization): `?` returns.
SendFailed ==
    /\ pc = "send"
    /\ pc' = "returned" /\ ret' = "Err" /\ exit' = "send_failed"
    /\ UNCHANGED <<sessions, pos, session, buffer, full_content, event_lines, tx, envVars>>

\* Mutant of StatusNotSuccess: the Error event without the `return Err(..)`;
\* the body of the error response is then read as the stream.
StatusNotSuccess_NoReturn ==
    /\ pc = "send"
    /\ Send(ErrorEvent)
    /\ buffer' = <<>> /\ full_content' = <<>>
    /\ pc' = "next_chunk"
    /\ UNCHANGED <<sessions, pos, session, event_lines, ret, exit, envVars>>

\* Lines 431-441: a response with a non-success status.
StatusNotSuccess ==
    /\ pc = "send"
    /\ Send(ErrorEvent)
    /\ pc' = "returned" /\ ret' = "Err" /\ exit' = "status"
    /\ UNCHANGED <<sessions, pos, session, buffer, full_content, event_lines, envVars>>

\* Lines 443-445: a success status; the body is read as a stream.
StatusSuccess ==
    /\ pc = "send"
    /\ buffer' = <<>> /\ full_content' = <<>>
    /\ pc' = "next_chunk"
    /\ UNCHANGED <<sessions, pos, session, event_lines, tx, ret, exit, envVars>>

\* Mutant of ChunkOk: the chunk replaces what the buffer held.
ChunkOk_NoCarry ==
    /\ pc = "next_chunk"
    /\ \E n \in 1..(Len(feed) - pos) :
          /\ buffer' = SubSeq(feed, pos + 1, pos + n)
          /\ pos' = pos + n
    /\ pc' = "find_block"
    /\ UNCHANGED <<sessions, session, full_content, event_lines, tx, ret, exit, envVars>>

\* Lines 447-451: stream.next() yields the next n atoms of the body.
ChunkOk ==
    /\ pc = "next_chunk"
    /\ \E n \in 1..(Len(feed) - pos) :
          /\ buffer' = buffer \o SubSeq(feed, pos + 1, pos + n)
          /\ pos' = pos + n
    /\ pc' = "find_block"
    /\ UNCHANGED <<sessions, session, full_content, event_lines, tx, ret, exit, envVars>>

\* Mutant of ChunkErr: `break` in place of `return Err(..)`, so that control
\* falls out of the loop into the commit at line 513.
ChunkErr_Break ==
    /\ pc = "next_chunk"
    /\ Send(ErrorEvent)
    /\ pc' = Finalize("end")
    /\ UNCHANGED <<sessions, pos, session, buffer, full_content, event_lines, ret, exit, envVars>>

\* Lines 501-509: stream.next() yields an error.
ChunkErr ==
    /\ pc = "next_chunk"
    /\ Send(ErrorEvent)
    /\ pc' = "returned" /\ ret' = "Err" /\ exit' = "read_error"
    /\ UNCHANGED <<sessions, pos, session, buffer, full_content, event_lines, envVars>>

\* Mutant of StreamEnd: Done at the end of the feed without the commit.
StreamEnd_NoCommit ==
    /\ pc = "next_chunk"
    /\ pos = Len(feed)
    /\ pc' = "end_send"
    /\ UNCHANGED <<sessions, pos, session, buffer, full_content, event_lines, tx, ret, exit, envVars>>

\* Mutant of StreamEnd: what is left in the buffer at the end of the feed is
\* scanned as a last block.
StreamEnd_Flush ==
    /\ pc = "next_chunk"
    /\ pos = Len(feed)
    /\ IF buffer # <<>>
       THEN /\ event_lines' = lines(buffer)
            /\ buffer' = <<>>
            /\ pc' = IF event_lines' = <<>> THEN "next_chunk" ELSE "line"
       ELSE /\ pc' = Finalize("end")
            /\ UNCHANGED <<buffer, event_lines>>
    /\ UNCHANGED <<sessions, pos, session, full_content, tx, ret, exit, envVars>>

\* Line 447: stream.next() yields None, the body has ended; on to line 513.
StreamEnd ==
    /\ pc = "next_chunk"
    /\ pos = Len(feed)
    /\ pc' = Finalize("end")
    /\ UNCHANGED <<sessions, pos, session, buffer, full_content, event_lines, tx, ret, exit, envVars>>

\* Lines 453-455: the while loop cuts the next block off the buffer, or ends.
FindBlock ==
    /\ pc = "find_block"
    /\ LET at == find(buffer) IN
       IF at >= 0
       THEN /\ event_lines' = lines(SubSeq(buffer, 1, at))
            /\ buffer' = SubSeq(buffer, at + 3, Len(buffer))
            /\ pc' = IF event_lines' = <<>> THEN "find_block" ELSE "line"
       ELSE /\ pc' = "next_chunk"
            /\ UNCHANGED <<buffer, event_lines>>
    /\ UNCHANGED <<sessions, pos, session, full_content, tx, ret, exit, envVars>>

\* Mutant of push_str: the increment replaces the text so far.
push_str_Overwrite(full, delta) == delta

\* full_content.push_str(delta)
push_str(full, delta) == full \o delta

\* Mutant of HasDelta: without the `!delta.is_empty()` test.
HasDelta_NoEmptyCheck(delta) == delta.some

\* Lines 480-487: the content field is there, is a string, and is not empty
HasDelta(delta) == delta.some /\ delta.text # <<>>

\* Lines 457-498: one pass of the for loop over the block's lines.
ProcessLine ==
    /\ pc = "line"
    /\ LET line == Head(event_lines)
           data == StripData(line)
           delta == DeltaOf(data.rest)
           next == IF Tail(event_lines) = <<>> THEN "find_block" ELSE "line"
       IN  /\ event_lines' = Tail(event_lines)
           /\ IF data.some /\ IsSentinel(data.rest)
              THEN /\ pc' = Finalize("done")
                   /\ UNCHANGED <<full_content, tx>>
              ELSE IF data.some /\ HasDelta(delta)
              THEN /\ full_content' = push_str(full_content, delta.text)
                   /\ Send(DeltaEvent(delta.text, full_content'))
                   /\ pc' = next
              ELSE /\ pc' = next
                   /\ UNCHANGED <<full_content, tx>>
    /\ UNCHANGED <<sessions, pos, session, buffer, ret, exit, envVars>>

\* Mutant of CommitUser: the snapshot is a handle on the stored session, and
\* shows what the store holds after the write.
CommitUser_LiveHandle ==
    /\ pc \in {"done_user", "end_user"}
    /\ WriteLockFree
    /\ sessions' = add_message_to_session(sessions, request.session_id, "user",
                                          Text(request.message), request.images, clock)
    /\ session' = IF request.session_id \in DOMAIN sessions
                  THEN sessions'[request.session_id] ELSE session
    /\ pc' = IF pc = "done_user" THEN "done_assistant" ELSE "end_assistant"
    /\ UNCHANGED <<pos, buffer, full_content, event_lines, tx, ret, exit, envVars>>

\* Lines 462-467 and 515-520: add_message_to_session(sid, "user", ...).
CommitUser ==
    /\ pc \in {"done_user", "end_user"}
    /\ WriteLockFree
    /\ sessions' = add_message_to_session(sessions, request.session_id, "user",
                                          Text(request.message), request.images, clock)
    /\ pc' = IF pc = "done_user" THEN "done_assistant" ELSE "end_assistant"
    /\ UNCHANGED <<pos, session, buffer, full_content, event_lines, tx, ret, exit, envVars>>

\* Mutant of CommitAssistant: the answer is stored only while the channel
\* has a receiver.
CommitAssistant_IfReceiver ==
    /\ pc \in {"done_assistant", "end_assistant"}
    /\ WriteLockFree
    /\ sessions' = IF fwd.rx_open
                   THEN add_message_to_session(sessions, request.session_id, "assistant",
                                               Text(full_content), NoImages, clock)
                   ELSE sessions
    /\ pc' = IF pc = "done_assistant" THEN "done_send" ELSE "end_send"
    /\ UNCHANGED <<pos, session, buffer, full_content, event_lines, tx, ret, exit, envVars>>

\* Lines 468-473 and 521: add_message_to_session(sid, "assistant", ...).
CommitAssistant ==
    /\ pc \in {"done_assistant", "end_assistant"}
    /\ WriteLockFree
    /\ sessions' = add_message_to_session(sessions, request.session_id, "assistant",
                                          Text(full_content), NoImages, clock)
    /\ pc' = IF pc = "done_assistant" THEN "done_send" ELSE "end_send"
    /\ UNCHANGED <<pos, session, buffer, full_content, event_lines, tx, ret, exit, envVars>>

\* Mutant of SendDoneSentinel: `break` in place of `return Ok(())`, which
\* leaves the for loop only; the while loop goes on with the next block.
SendDoneSentinel_Break ==
    /\ pc = "done_send"
    /\ Send(DoneEvent)
    /\ event_lines' = <<>>
    /\ pc' = "find_block"
    /\ UNCHANGED <<sessions, pos, session, buffer, full_content, ret, exit, envVars>>

\* Lines 475-476: Done is sent and chat_stream returns from inside the loops.
SendDoneSentinel ==
    /\ pc = "done_send"
    /\ Send(DoneEvent)
    /\ pc' = "returned" /\ ret' = "Ok" /\ exit' = "sentinel"
    /\ UNCHANGED <<sessions, pos, session, buffer, full_content, event_lines, envVars>>

\* Mutant of SendDoneEnd: Done is sent and an error returned.
SendDoneEnd_ReturnsErr ==
    /\ pc = "end_send"
    /\ Send(DoneEvent)
    /\ pc' = "returned" /\ ret' = "Err" /\ exit' = "end_of_feed"
    /\ UNCHANGED <<sessions, pos, session, buffer, full_content, event_lines, envVars>>

\* Lines 524-525: Done is sent and chat_stream returns.
SendDoneEnd ==
    /\ pc = "end_send"
    /\ Send(DoneEvent)
    /\ pc' = "returned" /\ ret' = "Ok" /\ exit' = "end_of_feed"
    /\ UNCHANGED <<sessions, pos, session, buffer, full_content, event_lines, envVars>>

Next ==
    \/ Start
    \/ SendFailed
    \/ StatusNotSuccess
    \/ StatusSuccess
    \/ ChunkOk
    \/ ChunkErr
    \/ StreamEnd
    \/ FindBlock
    \/ ProcessLine
    \/ CommitUser
    \/ CommitAssistant
    \/ SendDoneSentinel
    \/ SendDoneEnd

Spec == Init /\ [][Next]_vars

-----------------------------------------------------------------------------
(* chat *)

\* The n-th call says "m" n times, so that each message names its call.
CallText(n) == Repeat("m", n)

ChatRequest(sid, imgs, n) == [session_id |-> sid, message |-> CallText(n), images |-> imgs]

ChatRequests(n) ==
    { ChatRequest(None, NoImages, n), ChatRequest("s1", NoImages, n),
      ChatRequest("s1", SomeImages(<<Png>>), n), ChatRequest("s9", NoImages, n) }

\* What the endpoint may answer: a status that is not a success with its
\* body, and the content of the first choice of a success (none: empty).
Status500 == "500 Internal Server Error"
ErrorBody == <<"oops">>
ReplyContents == { <<"R">>, <<>> }

\* What no step of chat writes, and what no step of chat but a write to the
\* store writes
commitOthers == <<clock, inputVars, streamVars, config, lock, last_op, ops, fwd, cmdVars>>
chatOthers == <<commitOthers, detached>>

\* Lines 165-221: the snapshot under the read lock, the request is built.
\* rs: the requests the caller may make
ChatCallOf(rs) ==
    /\ chat.pc \in {"idle", "returned"}
    /\ calls < MaxCalls
    /\ \E r \in rs :
          LET known == r.session_id # None /\ r.session_id \in DOMAIN sessions
              messages ==
                  IF known
                  THEN build_messages_with_history(config, sessions[r.session_id],
                                                   r.message, r.images)
                  ELSE build_single_messages(config, r.message, r.images)
          IN  /\ r.session_id # None => ReadLockFree
              /\ chat' = [pc |-> "send", request |-> r,
                           session |-> IF known THEN sessions[r.session_id] ELSE None,
                           messages |-> messages, answer |-> NoAnswer, content |-> <<>>,
                           ret |-> NoResult]
    /\ calls' = calls + 1
    /\ UNCHANGED <<sessions, chat_log, chatOthers>>

ChatCall == ChatCallOf(ChatRequests(calls + 1))

\* return: the caller has the result
Return(answer, result) ==
    /\ chat' = [chat EXCEPT !.pc = "returned", !.answer = answer,
                            !.content = answer.content, !.ret = result]
    /\ chat_log' = Append(chat_log, [request |-> chat.request, messages |-> chat.messages,
                                     answer |-> answer, ret |-> result])

\* Lines 225-233: send() fails; `?` returns the error.
ChatSendFailed ==
    /\ chat.pc = "send"
    /\ Return(SendError, Err(<<"send failed">>))
    /\ UNCHANGED <<sessions, calls, chatOthers>>

\* Lines 235-246: a status that is not a success.
ChatStatusNotSuccess ==
    /\ chat.pc = "send"
    /\ Return(StatusAnswer(Status500, ErrorBody),
              Ok(NativeChatResponse(<<>>, FALSE, SomeError(ApiError(Status500, ErrorBody)))))
    /\ UNCHANGED <<sessions, calls, chatOthers>>

\* Mutant of ChatBodyInvalid: the user message is stored before the body is read.
ChatBodyInvalid_UserKept ==
    /\ chat.pc = "send"
    /\ sessions' = add_message_to_session(sessions, chat.request.session_id, "user",
                                          Text(chat.request.message), chat.request.images, clock)
    /\ Return(InvalidBody, Err(<<"parse failed">>))
    /\ UNCHANGED <<calls, chatOthers>>

\* Lines 248-251: the body of a success is not a ChatCompletionResponse.
ChatBodyInvalid ==
    /\ chat.pc = "send"
    /\ Return(InvalidBody, Err(<<"parse failed">>))
    /\ UNCHANGED <<sessions, calls, chatOthers>>

\* Lines 253-262 and, without a session id, 280-288.
ChatSuccess ==
    /\ chat.pc = "send"
    /\ \E content \in ReplyContents :
          IF chat.request.session_id # None
          THEN /\ chat' = [chat EXCEPT !.pc = "commit_user", !.content = content,
                                       !.answer = SuccessAnswer(content)]
               /\ UNCHANGED chat_log
          ELSE Return(SuccessAnswer(content), Ok(NativeChatResponse(content, TRUE, NoError)))
    /\ UNCHANGED <<sessions, calls, chatOthers>>

\* self.add_message_to_session of chat: self.sessions is the store of the
\* agent the state held when the call began (lines 612, 626), replaced since
\* or not
ChatWrite(role, content, images) ==
    IF detached.call = calls
    THEN /\ detached' = [detached EXCEPT !.store =
                             add_message_to_session(@, chat.request.session_id, role,
                                                    content, images, clock)]
         /\ UNCHANGED sessions
    ELSE /\ sessions' = add_message_to_session(sessions, chat.request.session_id, role,
                                               content, images, clock)
         /\ UNCHANGED detached

\* Mutant of ChatCommitUser: the list is written back from the snapshot of
\* the call with the user message behind it.
ChatCommitUser_FromSnapshot ==
    /\ chat.pc = "commit_user"
    /\ WriteLockFree
    /\ sessions' =
          IF chat.request.session_id \in DOMAIN sessions
          THEN add_message_to_session(
                   [sessions EXCEPT ![chat.request.session_id].messages = chat.session.messages],
                   chat.request.session_id, "user", Text(chat.request.message),
                   chat.request.images, clock)
          ELSE sessions
    /\ chat' = [chat EXCEPT !.pc = "commit_assistant"]
    /\ UNCHANGED <<calls, chat_log, chatOthers>>

\* Lines 266-271: the first add_message_to_session.
ChatCommitUser ==
    /\ chat.pc = "commit_user"
    /\ WriteLockFree
    /\ ChatWrite("user", Text(chat.request.message), chat.request.images)
    /\ chat' = [chat EXCEPT !.pc = "commit_assistant"]
    /\ UNCHANGED <<calls, chat_log, commitOthers>>

\* Mutant of ChatCommitAssistant: an error is returned when the session is
\* not in the store any more.
ChatCommitAssistant_ErrIfGone ==
    /\ chat.pc = "commit_assistant"
    /\ WriteLockFree
    /\ sessions' = add_message_to_session(sessions, chat.request.session_id, "assistant",
                                          Text(chat.content), NoImages, clock)
    /\ IF chat.request.session_id \in DOMAIN sessions
       THEN Return(chat.answer, Ok(NativeChatResponse(chat.content, TRUE, NoError)))
       ELSE Return(chat.answer, Err(<<"session not found">>))
    /\ UNCHANGED <<calls, chatOthers>>

\* Lines 272-288: the second add_message_to_session, then the response.
ChatCommitAssistant ==
    /\ chat.pc = "commit_assistant"
    /\ WriteLockFree
    /\ ChatWrite("assistant", Text(chat.content), NoImages)
    /\ Return(chat.answer, Ok(NativeChatResponse(chat.content, TRUE, NoError)))
    /\ UNCHANGED <<calls, commitOthers>>

ChatNext ==
    \/ ChatCall
    \/ ChatSendFailed
    \/ ChatStatusNotSuccess
    \/ ChatBodyInvalid
    \/ ChatSuccess
    \/ ChatCommitUser
    \/ ChatCommitAssistant

\* A configuration with a system prompt of its own beside the default one
Configs == { DefaultConfig, [DefaultConfig EXCEPT !.system_prompt = "G"] }

\* chat_stream not yet called
StreamIdle ==
    /\ pos = 0
    /\ pc = "idle"
    /\ session = None
    /\ buffer = <<>>
    /\ full_content = <<>>
    /\ event_lines = <<>>
    /\ tx = <<>>
    /\ ret = None
    /\ exit = None

\* One caller that calls chat again and again, each call after the last has
\* returned; nothing else touches the store.
SeqInit ==
    /\ sessions = InitialStore
    /\ clock = 0
    /\ script = <<>>
    /\ feed = <<>>
    /\ request = NativeChatRequest(None, NoImages)
    /\ StreamIdle
    /\ config \in Configs
    /\ RestInit

SeqSpec == SeqInit /\ [][ChatNext]_vars

-----------------------------------------------------------------------------
(* The operations on the store *)

\* Number of store operations called, at most.
MaxOps == 1

\* The latest time the clock shows.
MaxClock == 1

\* uuid::Uuid::new_v4(): the n-th operation draws an id no earlier one drew
NewIds == <<"n1", "n2", "n3", "n4">>

\* The ids callers pass: of the sessions stored now or at the start, and one
\* no store ever held
CallerIds == DOMAIN sessions \cup DOMAIN InitialStore \cup {"s9"}

opOthers == <<inputVars, streamVars, config, lock, chat, calls, chat_log, fwd, cmdVars,
              detached>>

Called(op, id, result) ==
    /\ ops < MaxOps
    /\ last_op' = [op |-> op, id |-> id, result |-> result]
    /\ ops' = ops + 1

\* The clock moves on between two steps.
Tick ==
    /\ clock < MaxClock
    /\ clock' = clock + 1
    /\ UNCHANGED <<sessions, last_op, ops, opOthers>>

AgentSession(id, model, system_prompt, now) ==
    [id |-> id, model |-> model, messages |-> <<>>, system_prompt |-> system_prompt,
     created_at |-> now, updated_at |-> now]

\* Put(store, id, s): HashMap::insert
Put(store, id, s) ==
    [k \in DOMAIN store \cup {id} |-> IF k = id THEN s ELSE store[k]]

\* Mutant of Remove: HashMap::clear in place of HashMap::remove.
Remove_All(store, id) == [k \in {} |-> store[k]]

\* HashMap::remove
Remove(store, id) == [k \in DOMAIN store \ {id} |-> store[k]]

create_session ==
    /\ WriteLockFree
    /\ \E system_prompt \in {None, "P"} :
          LET session_id == NewIds[ops + 1]
          IN  /\ sessions' = Put(sessions, session_id,
                                 AgentSession(session_id, config.model, system_prompt, clock))
              /\ Called("create_session", session_id, session_id)
    /\ UNCHANGED <<clock, opOthers>>

get_session ==
    /\ ReadLockFree
    /\ \E session_id \in CallerIds :
          Called("get_session", session_id,
                 IF session_id \in DOMAIN sessions
                 THEN [some |-> TRUE, session |-> sessions[session_id]]
                 ELSE [some |-> FALSE, session |-> None])
    /\ UNCHANGED <<sessions, clock, opOthers>>

\* Mutant of delete_session: remove(..) without is_some().
delete_session_AlwaysTrue ==
    /\ WriteLockFree
    /\ \E session_id \in CallerIds :
          /\ sessions' = Remove(sessions, session_id)
          /\ Called("delete_session", session_id, TRUE)
    /\ UNCHANGED <<clock, opOthers>>

delete_session ==
    /\ WriteLockFree
    /\ \E session_id \in CallerIds :
          /\ sessions' = Remove(sessions, session_id)
          /\ Called("delete_session", session_id, session_id \in DOMAIN sessions)
    /\ UNCHANGED <<clock, opOthers>>

list_sessions ==
    /\ ReadLockFree
    /\ Called("list_sessions", None, {sessions[k] : k \in DOMAIN sessions})
    /\ UNCHANGED <<sessions, clock, opOthers>>

\* Mutant of clear_session_messages: updated_at is left as it was.
clear_session_messages_NoTouch ==
    /\ WriteLockFree
    /\ \E session_id \in CallerIds :
          /\ sessions' = IF session_id \in DOMAIN sessions
                         THEN [sessions EXCEPT ![session_id].messages = <<>>]
                         ELSE sessions
          /\ Called("clear_session_messages", session_id, session_id \in DOMAIN sessions)
    /\ UNCHANGED <<clock, opOthers>>

\* Mutant of clear_session_messages: the session is made anew.
clear_session_messages_Recreate ==
    /\ WriteLockFree
    /\ \E session_id \in CallerIds :
          /\ sessions' = IF session_id \in DOMAIN sessions
                         THEN [sessions EXCEPT ![session_id] =
                                  AgentSession(session_id, config.model, None, clock)]
                         ELSE sessions
          /\ Called("clear_session_messages", session_id, session_id \in DOMAIN sessions)
    /\ UNCHANGED <<clock, opOthers>>

clear_session_messages ==
    /\ WriteLockFree
    /\ \E session_id \in CallerIds :
          /\ sessions' = IF session_id \in DOMAIN sessions
                         THEN [sessions EXCEPT ![session_id].messages = <<>>,
                                               ![session_id].updated_at = clock]
                         ELSE sessions
          /\ Called("clear_session_messages", session_id, session_id \in DOMAIN sessions)
    /\ UNCHANGED <<clock, opOthers>>

get_session_messages ==
    /\ ReadLockFree
    /\ \E session_id \in CallerIds :
          Called("get_session_messages", session_id,
                 IF session_id \in DOMAIN sessions
                 THEN [some |-> TRUE, messages |-> sessions[session_id].messages]
                 ELSE [some |-> FALSE, messages |-> <<>>])
    /\ UNCHANGED <<sessions, clock, opOthers>>

-----------------------------------------------------------------------------
(* One chat call, one chat_stream call and the store operations, in any order *)

\* A body with one payload that ends without the sentinel
StoreScript == <<[line |-> <<DATA, SP, JsonA>>, sep |-> 2]>>

StoreRequests == { NativeChatRequest("s1", NoImages), NativeChatRequest("s9", NoImages) }

StoreInit ==
    /\ sessions = InitialStore
    /\ clock = 0
    /\ script = StoreScript
    /\ feed = Render(script)
    /\ request \in StoreRequests
    /\ StreamIdle
    /\ config = DefaultConfig
    /\ RestInit

\* The one chat call of the caller
FirstCall == calls = 0 /\ ChatCall

StoreNext ==
    \/ Start
    \/ SendFailed
    \/ StatusNotSuccess
    \/ StatusSuccess
    \/ ChunkOk
    \/ ChunkErr
    \/ StreamEnd
    \/ FindBlock
    \/ ProcessLine
    \/ CommitUser
    \/ CommitAssistant
    \/ SendDoneEnd
    \/ FirstCall
    \/ ChatSendFailed
    \/ ChatStatusNotSuccess
    \/ ChatBodyInvalid
    \/ ChatSuccess
    \/ ChatCommitUser
    \/ ChatCommitAssistant
    \/ create_session
    \/ get_session
    \/ delete_session
    \/ list_sessions
    \/ clear_session_messages
    \/ get_session_messages

StoreSpec == StoreInit /\ [][StoreNext]_vars

-----------------------------------------------------------------------------
(* The turns of chat and chat_stream, clear and create, while the clock runs *)

ClockInit ==
    /\ sessions = InitialStore
    /\ clock = 0
    /\ script = StoreScript
    /\ feed = Render(script)
    /\ request = NativeChatRequest("s1", NoImages)
    /\ StreamIdle
    /\ config = DefaultConfig
    /\ RestInit

ClockNext ==
    \/ Tick
    \/ Start
    \/ SendFailed
    \/ StatusNotSuccess
    \/ StatusSuccess
    \/ ChunkOk
    \/ ChunkErr
    \/ StreamEnd
    \/ FindBlock
    \/ ProcessLine
    \/ CommitUser
    \/ CommitAssistant
    \/ SendDoneEnd
    \/ FirstCall
    \/ ChatSuccess
    \/ ChatCommitUser
    \/ ChatCommitAssistant
    \/ create_session
    \/ clear_session_messages

ClockSpec == ClockInit /\ [][ClockNext]_vars

-----------------------------------------------------------------------------
(* The forwarder of native_agent_chat_stream and goose_agent_send_message *)

fwdOthers == <<sessions, clock, inputVars, streamVars, config, lock, chat, calls,
               chat_log, last_op, ops, cmdVars, detached>>

\* rx.recv() has an event to return
Pending == fwd.received < Len(tx)

\* Mutant of FwdForward: the loop without the break at Done and Error.
FwdForward_NoBreak ==
    /\ fwd.pc = "recv"
    /\ Pending
    /\ fwd' = [fwd EXCEPT !.received = @ + 1, !.ui = Append(@, tx[fwd.received + 1])]
    /\ UNCHANGED fwdOthers

\* One turn of the loop: recv() returns the next event, emit(..) succeeds,
\* and the loop ends if the event is Done or Error.
FwdForward ==
    /\ fwd.pc = "recv"
    /\ Pending
    /\ LET event == tx[fwd.received + 1]
       IN  fwd' = [fwd EXCEPT !.received = @ + 1,
                              !.ui = Append(@, event),
                              !.pc = IF event.type \in {"done", "error"} THEN "join" ELSE "recv"]
    /\ UNCHANGED fwdOthers

\* One turn of the loop: recv() returns the next event, emit(..) fails: break.
FwdEmitFails ==
    /\ fwd.pc = "recv"
    /\ Pending
    /\ fwd' = [fwd EXCEPT !.received = @ + 1, !.pc = "join"]
    /\ UNCHANGED fwdOthers

\* recv() returns None: the channel is empty and chat_stream, which owned
\* the only sender, has returned.
FwdClosed ==
    /\ fwd.pc = "recv"
    /\ ~Pending
    /\ pc = "returned"
    /\ fwd' = [fwd EXCEPT !.pc = "join"]
    /\ UNCHANGED fwdOthers

\* stream_task.await returns once chat_stream has; the block ends, rx is dropped.
FwdJoin ==
    /\ fwd.pc = "join"
    /\ pc = "returned"
    /\ fwd' = [fwd EXCEPT !.pc = "finished", !.rx_open = FALSE]
    /\ UNCHANGED fwdOthers

\* A body of one block whose lines make chat_stream send one event more
\* than the channel holds, before Done
LongScript ==
    [i \in 1..(ChannelCap + 1) |->
        [line |-> <<DATA, SP, JsonA>>, sep |-> IF i = ChannelCap + 1 THEN 2 ELSE 1]]

FwdScripts ==
    { LongScript,
      <<[line |-> <<DATA, SP, JsonA>>, sep |-> 2], [line |-> <<DATA, SP, DONE>>, sep |-> 2]>> }

\* The command calls chat_stream without a session id, on an agent of its own.
FwdInit ==
    /\ sessions = [id \in {} |-> None]
    /\ clock = 0
    /\ script \in FwdScripts
    /\ feed = Render(script)
    /\ request = NativeChatRequest(None, NoImages)
    /\ StreamIdle
    /\ config = DefaultConfig
    /\ RestInit

FwdNext ==
    \/ Start
    \/ SendFailed
    \/ StatusNotSuccess
    \/ StatusSuccess
    \/ ChunkOk
    \/ ChunkErr
    \/ StreamEnd
    \/ FindBlock
    \/ ProcessLine
    \/ SendDoneSentinel
    \/ SendDoneEnd
    \/ FwdForward
    \/ FwdEmitFails
    \/ FwdClosed
    \/ FwdJoin

FwdSpec == FwdInit /\ [][FwdNext]_vars

-----------------------------------------------------------------------------
(* What the claims speak of *)

IsTerminal(e) == e.type \in {"done", "error"}
IsDelta(e) == e.type = "text_delta"
IsDone(e) == e.type = "done"
IsError(e) == e.type = "error"

Count(ch, Test(_)) == Cardinality({i \in 1..Len(ch) : Test(ch[i])})

\* The texts of the TextDelta events of a channel, in order
DeltaTexts(ch) == TextsOf(SelectSeq(ch, IsDelta))

RECURSIVE Concat(_)
Concat(ss) == IF ss = <<>> THEN <<>> ELSE Head(ss) \o Concat(Tail(ss))

RECURSIVE IsSubseq(_, _)
IsSubseq(a, b) ==
    IF a = <<>> THEN TRUE
    ELSE IF b = <<>> THEN FALSE
    ELSE IF Head(a) = Head(b) THEN IsSubseq(Tail(a), Tail(b))
    ELSE IsSubseq(a, Tail(b))

IsPrefix(a, b) == Len(a) <= Len(b) /\ SubSeq(b, 1, Len(a)) = a

\* The script as the server means it: the payload a line carries, whether
\* a space follows the colon, whether a blank line ends the line's block.
Payload(line) == CHOOSE a \in {line[i] : i \in 1..Len(line)} : a \notin {DATA, SP}
Spaced(line) == line[2] = SP
Complete(s, i) == \E j \in i..Len(s) : s[j].sep = 2
Content(atom) == IF atom = JsonA THEN <<"A">> ELSE IF atom = JsonB THEN <<"B">> ELSE <<>>

\* The contents of the payloads of a script that have one, in stream order
PayloadContents(s) ==
    LET all == [i \in 1..Len(s) |-> Content(Payload(s[i].line))]
    IN  SelectSeq(all, LAMBDA t : t # <<>>)

\* The index of the first line "data: [DONE]" that a blank line follows, 0 if none
FirstSentinel(s) ==
    LET hits == {i \in 1..Len(s) :
                    Payload(s[i].line) = DONE /\ Spaced(s[i].line) /\ Complete(s, i)}
    IN  IF hits = {} THEN 0 ELSE CHOOSE i \in hits : \A j \in hits : i <= j

Returned == pc = "returned"
SessionKnown == request.session_id \in DOMAIN InitialStore
Before == InitialStore[request.session_id].messages
After == sessions[request.session_id].messages

\* C1: the events sent hold at most one terminal event (Done or Error), and it
\* is the last event sent: every TextDelta precedes it and nothing follows it.
C1_TerminalLastAndUnique ==
    \A i \in 1..Len(tx) : IsTerminal(tx[i]) => i = Len(tx)

\* A stream that ended at the sentinel with a delta sent before it.
C1_Witness ==
    /\ Returned /\ exit = "sentinel"
    /\ tx = <<TextDelta(<<"A">>), DoneEvent>>

\* C2: every transport-level failure, a failure to send the request included,
\* has exactly one Error event sent before chat_stream returns.
C2_TransportFailureSendsError ==
    (Returned /\ exit \in {"send_failed", "read_error"}) => Count(tx, IsError) = 1

\* C3: an invocation on a stored session that ends with Done appends one user
\* message and then one assistant message, once; it never adds more than two.
C3_ExactlyOneTurn ==
    SessionKnown =>
        /\ Len(After) <= Len(Before) + 2
        /\ IsPrefix(Before, After)
        /\ (Returned /\ ret = "Ok") =>
              /\ Len(After) = Len(Before) + 2
              /\ After[Len(After) - 1].role = "user"
              /\ After[Len(After)].role = "assistant"

\* A stream that ended at the sentinel although the feed went on after it.
C3_Witness ==
    /\ Returned /\ exit = "sentinel" /\ SessionKnown
    /\ FirstSentinel(script) = 1 /\ Len(script) > 1
    /\ Len(After) = Len(Before) + 2

\* C4: an invocation that ends with an Error event appends nothing to any
\* session, whatever was emitted and accumulated before the failure.
C4_ErrorCommitsNothing ==
    Count(tx, IsError) > 0 => sessions = InitialStore

\* A read failure after a delta was sent, on a stored session.
C4_Witness ==
    /\ Returned /\ exit = "read_error" /\ SessionKnown
    /\ full_content # <<>> /\ Count(tx, IsDelta) > 0

\* C5: when the feed ends with no sentinel seen and no read error, the turn is
\* committed with the text accumulated so far and exactly one Done is sent, as
\* at the sentinel.
C5_EndOfFeedFinalizes ==
    (Returned /\ ret = "Ok" /\ FirstSentinel(script) = 0) =>
        /\ exit = "end_of_feed"
        /\ Count(tx, IsDone) = 1 /\ IsDone(tx[Len(tx)])
        /\ SessionKnown =>
              /\ Len(After) = Len(Before) + 2
              /\ After[Len(After)].content = Text(full_content)
              /\ After[Len(After) - 1].role = "user"

\* A feed that ends after a delta, with no sentinel, on a stored session.
C5_Witness ==
    /\ Returned /\ exit = "end_of_feed" /\ SessionKnown
    /\ full_content = <<"A">> /\ tx = <<TextDelta(<<"A">>), DoneEvent>>

\* C6: nothing that follows the sentinel is decoded: the deltas sent and the
\* accumulated text come from the lines before the sentinel only.
C6_NothingAfterSentinel ==
    FirstSentinel(script) > 0 =>
        LET before == PayloadContents(SubSeq(script, 1, FirstSentinel(script) - 1))
        IN  /\ IsSubseq(DeltaTexts(tx), before)
            /\ IsSubseq(full_content, Concat(before))

\* The sentinel was processed while a later line of its block, with a
\* payload, was still to be scanned.
C6_Witness ==
    /\ Returned /\ exit = "sentinel"
    /\ event_lines # <<>> /\ Head(event_lines) = <<DATA, SP, JsonA>>

\* C7: each TextDelta carries the content of one payload, never the text so
\* far, and the deltas are in the order of their payloads in the stream.
C7_DeltasInStreamOrder ==
    /\ IsSubseq(DeltaTexts(tx), PayloadContents(script))
    /\ \A i \in 1..Len(tx) : IsDelta(tx[i]) => tx[i].text \in {<<"A">>, <<"B">>}

\* Two data lines of one block, decoded in their order.
C7_Witness ==
    /\ Len(script) = 2 /\ script[1].sep = 1
    /\ DeltaTexts(tx) = << <<"B">>, <<"A">> >>

\* C8: a committed assistant message holds the concatenation of the deltas
\* sent, in order, and the committed user message holds the request's text
\* and images.
C8_CommitMatchesDeltas ==
    (SessionKnown /\ pc \in {"done_send", "end_send", "returned"} /\ ret # "Err") =>
        LET user == After[Len(After) - 1]
            assistant == After[Len(After)]
        IN  /\ assistant.role = "assistant"
            /\ assistant.content = Text(Concat(DeltaTexts(tx)))
            /\ user.role = "user"
            /\ as_text(user.content) = request.message
            /\ IF request.images.some
               THEN /\ user.content.kind = "Parts"
                    /\ Len(user.content.parts) = 1 + Len(request.images.list)
                    /\ \A i \in 1..Len(request.images.list) :
                          user.content.parts[i + 1] =
                              ImagePart(<<"data:", request.images.list[i].media_type,
                                          ";base64,", request.images.list[i].data>>)
               ELSE user.content = Text(request.message)

\* A turn with an image, committed after two deltas.
C8_Witness ==
    /\ Returned /\ ret = "Ok" /\ SessionKnown /\ request.images.some
    /\ Len(DeltaTexts(tx)) = 2
    /\ After[Len(After)].content = Text(<<"A", "B">>)

\* Payload lines the decoder cannot use: not JSON, no content field, empty content
InvalidPayloadLines ==
    { <<DATA, SP, Garbage>>, <<DATA, SP, JsonNoContent>>, <<DATA, SP, JsonEmpty>> }

ContentLines == { <<DATA, SP, JsonA>>, <<DATA, SP, JsonB>> }

C9_Skipped ==
    (pc = "line" /\ Head(event_lines) \in InvalidPayloadLines) =>
        /\ tx' = tx
        /\ full_content' = full_content
        /\ pc' \in {"line", "find_block"}
        /\ ret' = None

C9_LaterDecoded ==
    (Returned /\ ret = "Ok") =>
        \A i \in 1..Len(script) :
            ( /\ script[i].line \in ContentLines
              /\ Complete(script, i)
              /\ \A j \in 1..(i - 1) : script[j].line \in InvalidPayloadLines )
            => DeltaTexts(tx)[1] = Content(Payload(script[i].line))

\* C9: a payload that is not parseable, has no content field or has an empty
\* content sends no event, leaves the accumulated text as it is and does not end
\* the stream; valid payloads after it are decoded and sent.
C9_InvalidPayloadSkipped == []C9_LaterDecoded /\ [][C9_Skipped]_vars

\* An unparseable payload, then a valid one in the next block, then the end.
C9_Witness ==
    /\ Returned /\ exit = "end_of_feed"
    /\ Len(script) = 2 /\ script[1].line = <<DATA, SP, Garbage>> /\ script[1].sep = 2
    /\ tx = <<TextDelta(<<"B">>), DoneEvent>>

\* C10: a line "data:<payload>" with no space after the colon is read as a
\* line "data: <payload>" is: "data:[DONE]" ends the stream at the sentinel
\* and "data:{...}" with a content sends its TextDelta.
C10_DataWithoutSpace ==
    (Returned /\ ret = "Ok") =>
        /\ (\E i \in 1..Len(script) : script[i].line = <<DATA, DONE>> /\ Complete(script, i))
              => exit = "sentinel"
        /\ \A i \in 1..Len(script) :
              ( /\ script[i].line = <<DATA, JsonA>>
                /\ Complete(script, i)
                /\ \A j \in 1..(i - 1) : Payload(script[j].line) # DONE )
              => \E k \in 1..Len(tx) : tx[k] = TextDelta(<<"A">>)

\* The store the calls of a log leave behind when nothing else touches it:
\* a call that succeeded appends its turn to the session it names, if the
\* store holds it; every other call appends nothing.
Committed(e) == e.ret.kind = "Ok" /\ e.ret.response.success /\ e.request.session_id # None

RECURSIVE Replay(_, _)
Replay(store, log) ==
    IF log = <<>> THEN store
    ELSE LET e == Head(log)
             user == add_message_to_session(store, e.request.session_id, "user",
                                            Text(e.request.message), e.request.images, 0)
             turn == add_message_to_session(user, e.request.session_id, "assistant",
                                            Text(e.ret.response.content), NoImages, 0)
         IN  Replay(IF Committed(e) THEN turn ELSE store, Tail(log))

Front(s) == SubSeq(s, 1, Len(s) - 1)

Contains(text, sub) ==
    \E i \in 1..(Len(text) - Len(sub) + 1) : SubSeq(text, i, i + Len(sub) - 1) = sub

ChatReturned == chat.pc = "returned"

\* C11: when the endpoint answers a chat call with a status that is not a
\* success, chat returns Ok with success = false and an error text that holds
\* the status and the body, and the store is what the earlier calls left.
C11_StatusNotSuccessIsSoft ==
    (ChatReturned /\ chat.answer.kind = "status") =>
        /\ chat.ret.kind = "Ok"
        /\ ~chat.ret.response.success
        /\ chat.ret.response.error.some
        /\ Contains(chat.ret.response.error.text, <<chat.answer.status>>)
        /\ Contains(chat.ret.response.error.text, chat.answer.body)
        /\ sessions = Replay(InitialStore, Front(chat_log))

C11_Witness ==
    /\ ChatReturned /\ chat.answer.kind = "status"
    /\ chat.request.session_id = "s1"
    /\ Len(sessions["s1"].messages) = 4

\* C12: when send() fails or the body of a success cannot be deserialized,
\* chat returns Err, and no message list and no updated_at of the store differs
\* from what the earlier calls left.
C12_TransportFailureIsHard ==
    (ChatReturned /\ chat.answer.kind \in {"send_failed", "invalid_body"}) =>
        /\ chat.ret.kind = "Err"
        /\ DOMAIN sessions = DOMAIN InitialStore
        /\ \A sid \in DOMAIN sessions :
              LET was == Replay(InitialStore, Front(chat_log))[sid]
              IN  /\ sessions[sid].messages = was.messages
                  /\ sessions[sid].updated_at = was.updated_at

C12_Witness ==
    /\ ChatReturned /\ chat.answer.kind = "invalid_body"
    /\ chat.request.session_id = "s1"
    /\ Len(sessions["s1"].messages) = 4

\* The calls of the log that committed a turn to session sid, by their index
CommittedTo(sid) ==
    {i \in 1..Len(chat_log) : Committed(chat_log[i]) /\ chat_log[i].request.session_id = sid}

\* The messages of a built request without the system prompt at its head
WithoutSystem(messages) ==
    IF messages # <<>> /\ Head(messages).role = "system" THEN Tail(messages) ELSE messages

\* The j-th smallest member of a set of numbers
RECURSIVE Nth(_, _)
Nth(S, j) ==
    LET least == CHOOSE x \in S : \A y \in S : x <= y
    IN  IF j = 1 THEN least ELSE Nth(S \ {least}, j - 1)

\* C13: with chat called again and again on the stored session "s1", each
\* call after the last has returned, the session holds two messages more for
\* each call that succeeded, user then assistant, in call order; and the
\* request every call built holds, before the user message, the messages all
\* earlier successful calls committed, in order, after those stored before.
C13_SequentialTurns ==
    LET done == CommittedTo("s1")
        k == Cardinality(done)
        base == Len(InitialStore["s1"].messages)
        now == sessions["s1"].messages
    IN  /\ (chat.pc \in {"idle", "send", "returned"}) =>
               /\ Len(now) = base + 2 * k
               /\ SubSeq(now, 1, base) = InitialStore["s1"].messages
               /\ \A j \in 1..k :
                     LET e == chat_log[Nth(done, j)]
                         user == now[base + 2 * j - 1]
                         assistant == now[base + 2 * j]
                     IN  /\ user.role = "user"
                         /\ as_text(user.content) = e.request.message
                         /\ assistant.role = "assistant"
                         /\ assistant.content = Text(e.ret.response.content)
        /\ \A i \in 1..Len(chat_log) :
              chat_log[i].request.session_id = "s1" =>
                  LET earlier == Cardinality({j \in done : j < i})
                      built == WithoutSystem(chat_log[i].messages)
                  IN  /\ Len(built) = base + 2 * earlier + 1
                      /\ \A n \in 1..(base + 2 * earlier) :
                            built[n] = convert_to_chat_message(now[n])
                      /\ built[Len(built)].role = "user"

C13_Witness ==
    /\ ChatReturned
    /\ Cardinality(CommittedTo("s1")) = 2
    /\ Len(sessions["s1"].messages) = 6
    /\ Len(WithoutSystem(chat.messages)) = 5

\* The events chat_stream sends for a body it reads to its sentinel or to its
\* end, as a function of the body alone: block by block, line by line.
RECURSIVE DecodeLines(_)
DecodeLines(ls) ==
    IF ls = <<>> THEN [events |-> <<>>, done |-> FALSE]
    ELSE LET data == StripData(Head(ls))
             delta == DeltaOf(data.rest)
             rest == DecodeLines(Tail(ls))
         IN  IF data.some /\ IsSentinel(data.rest) THEN [events |-> <<>>, done |-> TRUE]
             ELSE IF data.some /\ HasDelta(delta)
             THEN [rest EXCEPT !.events = <<TextDelta(delta.text)>> \o @]
             ELSE rest

RECURSIVE Decode(_)
Decode(buf) ==
    IF find(buf) = -1 THEN <<DoneEvent>>
    ELSE LET block == DecodeLines(lines(SubSeq(buf, 1, find(buf))))
         IN  IF block.done THEN block.events \o <<DoneEvent>>
             ELSE block.events \o Decode(SubSeq(buf, find(buf) + 3, Len(buf)))

\* What chat returns for an answer when it has no session to read or write
ResultOf(answer) ==
    IF answer.kind = "success" THEN Ok(NativeChatResponse(answer.content, TRUE, NoError))
    ELSE IF answer.kind = "status"
    THEN Ok(NativeChatResponse(<<>>, FALSE, SomeError(ApiError(answer.status, answer.body))))
    ELSE Err(chat.ret.message)

Stateless(sid) == sid \in {None, "s9"}

C14_SameAsNoSession ==
    /\ "s9" \notin DOMAIN sessions
    /\ (chat.pc # "idle" /\ Stateless(chat.request.session_id)) =>
           /\ chat.messages = build_single_messages(config, chat.request.message,
                                                    chat.request.images)
           /\ ChatReturned => chat.ret = ResultOf(chat.answer)
    /\ (Returned /\ Stateless(request.session_id) /\ exit \in {"sentinel", "end_of_feed"}) =>
           /\ ret = "Ok"
           /\ tx = Decode(feed)

C14_StoreUntouched ==
    /\ (streamVars' # streamVars /\ request.session_id \notin DOMAIN sessions) =>
           sessions' = sessions
    /\ (chat' # chat /\ chat.pc \in {"idle", "returned"}) => sessions' = sessions
    /\ (chat' # chat /\ chat.pc \notin {"idle", "returned"}
            /\ chat.request.session_id \notin DOMAIN sessions) => sessions' = sessions
    /\ \/ DOMAIN sessions' \subseteq DOMAIN sessions
       \/ /\ last_op'.op = "create_session"
          /\ ops' = ops + 1
          /\ DOMAIN sessions' = DOMAIN sessions \cup {last_op'.id}

C15_UnknownIdAct ==
    (ops' = ops + 1 /\ last_op'.op \in {"delete_session", "clear_session_messages"}) =>
        IF last_op'.id \notin DOMAIN sessions
        THEN /\ last_op'.result = FALSE
             /\ sessions' = sessions
        ELSE /\ last_op'.result = TRUE
             /\ IF last_op'.op = "delete_session"
                THEN sessions' = Remove(sessions, last_op'.id)
                ELSE /\ DOMAIN sessions' = DOMAIN sessions
                     /\ sessions'[last_op'.id].messages = <<>>
                     /\ \A k \in DOMAIN sessions \ {last_op'.id} : sessions'[k] = sessions[k]

\* C15: delete_session and clear_session_messages called with an id the store
\* does not hold return false and leave the store as it was; called with an
\* id the store holds they return true, and remove the session or empty its
\* message list.
C15_UnknownIdIsNoOp == [][C15_UnknownIdAct]_vars

C15_Witness ==
    /\ last_op.op \in {"delete_session", "clear_session_messages"}
    /\ last_op.id = "s9"
    /\ last_op.result = FALSE
    /\ Len(sessions["s1"].messages) = 4

Holds(task) == task \in lock.readers \/ lock.writer = task

\* Where chat_stream awaits: the response, the next chunk, and the channel
\* at each tx.send
StreamAwaits == {"send", "next_chunk", "line", "done_send", "end_send"}

Paired(messages) ==
    \A i \in 1..Len(messages) :
        messages[i].role = "user" =>
            i < Len(messages) /\ messages[i + 1].role = "assistant"

\* C17: what get_session, get_session_messages and list_sessions return
\* shows every committed user message with the assistant message of its
\* turn right after it.
C17_TurnCommittedAtomically ==
    /\ (last_op.op = "get_session" /\ last_op.result.some) =>
           Paired(last_op.result.session.messages)
    /\ (last_op.op = "get_session_messages" /\ last_op.result.some) =>
           Paired(last_op.result.messages)
    /\ last_op.op = "list_sessions" => \A s \in last_op.result : Paired(s.messages)

\* chat_stream stands at a tx.send(..).await that cannot complete
WaitsForChannel ==
    \/ pc = "line" /\ ~ENABLED ProcessLine
    \/ pc = "done_send" /\ ~ENABLED SendDoneSentinel
    \/ pc = "end_send" /\ ~ENABLED SendDoneEnd

\* The consumer has left its receive loop for good and keeps the receiver
ConsumerStopped == fwd.pc # "recv" /\ fwd.rx_open

\* C18: chat_stream is never left waiting for room in the channel once its
\* consumer has stopped receiving: with nobody to take an event out, such a
\* wait has no end, and chat_stream does not return.
C18_NeverBlockedForever == ~(WaitsForChannel /\ ConsumerStopped)

\* C19: what the forwarder has emitted is a prefix of what chat_stream has
\* sent, in the same order; only the last event emitted may be Done or Error;
\* and once it has emitted Done or Error the loop is over.
C19_ForwardsPrefixToTerminal ==
    /\ IsPrefix(fwd.ui, tx)
    /\ Len(fwd.ui) <= fwd.received
    /\ \A i \in 1..(Len(fwd.ui) - 1) : ~IsTerminal(fwd.ui[i])
    /\ (fwd.ui # <<>> /\ IsTerminal(fwd.ui[Len(fwd.ui)])) => fwd.pc # "recv"

C19_Witness ==
    /\ fwd.pc = "finished"
    /\ fwd.ui = <<TextDelta(<<"A">>), DoneEvent>>
    /\ tx = fwd.ui

\* The session sid is written by this step: a message is appended to it or
\* clear_session_messages is called with its id
Mutated(sid) ==
    \/ sessions'[sid].messages # sessions[sid].messages
    \/ /\ ops' = ops + 1
       /\ last_op'.op = "clear_session_messages"
       /\ last_op'.id = sid

C20_UpdatedAtAct ==
    \A sid \in DOMAIN sessions \cap DOMAIN sessions' :
        /\ sessions'[sid].updated_at >= sessions[sid].updated_at
        /\ Mutated(sid) => sessions'[sid].updated_at = clock

C20_NotBeforeCreated ==
    \A sid \in DOMAIN sessions : sessions[sid].updated_at >= sessions[sid].created_at

\* C20: a step that appends a message to a session or clears it sets the
\* updated_at of the session to the time of the step; no step makes the
\* updated_at of a session smaller; updated_at is never before created_at.
C20_UpdatedAtMonotone == []C20_NotBeforeCreated /\ [][C20_UpdatedAtAct]_vars

C20_Witness ==
    /\ last_op.op = "clear_session_messages" /\ last_op.id = "s1"
    /\ sessions["s1"].updated_at = 1
    /\ sessions["s1"].created_at = 0
    /\ Returned /\ exit = "end_of_feed"

-----------------------------------------------------------------------------
(* One caller: chat, chat_stream and the store operations one after another,
   while the clock runs *)

\* No call of chat or chat_stream is under way
Quiet == chat.pc \in {"idle", "returned"} /\ pc \in {"idle", "returned"}

LifeNext ==
    \/ Tick
    \/ Quiet /\ Start
    \/ SendFailed
    \/ StatusNotSuccess
    \/ StatusSuccess
    \/ ChunkOk
    \/ ChunkErr
    \/ StreamEnd
    \/ FindBlock
    \/ ProcessLine
    \/ CommitUser
    \/ CommitAssistant
    \/ SendDoneEnd
    \/ Quiet /\ FirstCall
    \/ ChatSendFailed
    \/ ChatStatusNotSuccess
    \/ ChatBodyInvalid
    \/ ChatSuccess
    \/ ChatCommitUser
    \/ ChatCommitAssistant
    \/ Quiet /\ create_session
    \/ Quiet /\ get_session
    \/ Quiet /\ delete_session
    \/ Quiet /\ list_sessions
    \/ Quiet /\ clear_session_messages
    \/ Quiet /\ get_session_messages

LifeSpec == StoreInit /\ [][LifeNext]_vars

-----------------------------------------------------------------------------
(* C21 *)

\* The step is the call of the store operation op
Calls(op) == ops' = ops + 1 /\ last_op'.op = op

\* clear_session_messages on a stored session: no messages, the rest as it was
C21_ClearAct ==
    Calls("clear_session_messages") /\ last_op'.id \in DOMAIN sessions =>
        LET sid == last_op'.id
        IN  /\ sid \in DOMAIN sessions'
            /\ sessions'[sid].messages = <<>>
            /\ sessions'[sid].id = sessions[sid].id
            /\ sessions'[sid].model = sessions[sid].model
            /\ sessions'[sid].system_prompt = sessions[sid].system_prompt
            /\ sessions'[sid].created_at = sessions[sid].created_at

\* A session leaves the store in a delete_session call with its id only
C21_OnlyDeleteRemoves ==
    \A sid \in DOMAIN sessions :
        sid \notin DOMAIN sessions' => Calls("delete_session") /\ last_op'.id = sid

\* C21: clear_session_messages on a stored session empties its message list
\* and leaves the session in the store with id, model, system_prompt and
\* created_at unchanged; no step of chat, chat_stream, get, list, create or
\* clear takes a session out of the store, only delete_session with its id.
C21_ClearKeepsSessionDeleteRemoves == [][C21_ClearAct /\ C21_OnlyDeleteRemoves]_vars

\* A session that got a turn was cleared later than it was created, and is
\* still stored.
C21_Witness ==
    /\ last_op.op = "clear_session_messages"
    /\ last_op.result = TRUE
    /\ last_op.id \in DOMAIN sessions
    /\ sessions[last_op.id].messages = <<>>
    /\ sessions[last_op.id].created_at < sessions[last_op.id].updated_at
    /\ chat.pc = "returned"
    /\ pc = "returned"

-----------------------------------------------------------------------------
(* C22 *)

\* The value a caller holds: what get_session returned, the snapshot of a
\* chat call under way, the snapshot of the chat_stream call
C22_HeldAct ==
    /\ last_op.op = "get_session" /\ ops' = ops => last_op' = last_op
    /\ chat.pc \notin {"idle", "returned"} => chat.session' = chat.session
    /\ pc # "idle" => session' = session

-----------------------------------------------------------------------------
(* One caller of chat, call after call, with and without images, on a store
   whose session has a prompt of its own or none *)

\* Number of images in a request, at most.
MaxImages == 2

Jpg == [data |-> "REVG", media_type |-> "image/jpeg"]
Gif == [data |-> "R0lG", media_type |-> "image/gif"]

\* The images a caller attaches, in this order
Images == <<Png, Jpg, Gif>>

\* request.images: None, Some(vec![]), Some(vec![..]) of up to MaxImages images
ImageArgs ==
    {NoImages} \cup
    { SomeImages(SubSeq(Images, 1, n)) :
          n \in 0..(IF MaxImages < Len(Images) THEN MaxImages ELSE Len(Images)) }

TurnRequests(n) ==
    { ChatRequest(sid, imgs, n) : sid \in {None, "s1", "s9"}, imgs \in ImageArgs }

\* create_session(model, Some("P")) made "s1", or create_session(model, None)
Stores == { InitialStore, [InitialStore EXCEPT !["s1"].system_prompt = "P"] }

TurnInit ==
    /\ sessions \in Stores
    /\ clock = 0
    /\ script = <<>>
    /\ feed = <<>>
    /\ request = NativeChatRequest(None, NoImages)
    /\ StreamIdle
    /\ config \in Configs
    /\ RestInit

TurnCall == ChatCallOf(TurnRequests(calls + 1))

TurnNext ==
    \/ TurnCall
    \/ ChatSuccess
    \/ ChatCommitUser
    \/ ChatCommitAssistant

TurnSpec == TurnInit /\ [][TurnNext]_vars

-----------------------------------------------------------------------------
(* C23 *)

\* The prompt the call under way resolves: of the stored session named by
\* the request when it has one, else of the configuration
Resolved ==
    LET sid == chat.request.session_id
    IN  IF sid # None /\ sid \in DOMAIN sessions /\ sessions[sid].system_prompt # None
        THEN sessions[sid].system_prompt
        ELSE config.system_prompt

SystemAt(messages) == {i \in 1..Len(messages) : messages[i].role = "system"}

\* C23: the request chat built starts with exactly one system message, which
\* holds the resolved prompt, when a prompt is resolved, and holds no system
\* message otherwise; the prompt of the session goes before the prompt of
\* the configuration, which is the one used without a session, with an
\* unknown session id and with a session that has no prompt.
C23_SystemPromptResolved ==
    chat.pc = "send" =>
        IF Resolved # None
        THEN /\ SystemAt(chat.messages) = {1}
             /\ chat.messages[1] = SystemChatMessage(Resolved)
        ELSE SystemAt(chat.messages) = {}

\* The session's prompt is sent although the configuration has one too.
C23_Witness ==
    /\ chat.pc = "send"
    /\ chat.request.session_id = "s1"
    /\ sessions["s1"].system_prompt = "P"
    /\ config.system_prompt = "G"
    /\ chat.messages[1] = SystemChatMessage("P")
    /\ Len(chat.messages) > 3

-----------------------------------------------------------------------------
(* The builders and as_text, applied to arguments of their types *)

\* Number of messages in the snapshot a builder is given, at most.
MaxHistory == 2

\* Messages of each shape the types allow: plain text, parts with an image
\* and its detail, tool calls, the answer to a tool call
HistoryMessages ==
    { AgentMessage("user", Text(<<"q">>), 0),
      AgentMessage("assistant", Text(<<"r">>), 0),
      AgentMessage("user", Parts(<<TextPart(<<"q">>), ImageUrlPart(DataUrl(Png), "high")>>), 0),
      [AgentMessage("assistant", Text(<<>>), 0) EXCEPT
          !.tool_calls = SomeToolCalls(<<ToolCall("c1", "function", FunctionCall("f", "{}"))>>)],
      [AgentMessage("tool", Text(<<"v">>), 0) EXCEPT !.tool_call_id = "c1"] }

Histories == UNION { [1..n -> HistoryMessages] : n \in 0..MaxHistory }

Snapshots ==
    { [AgentSession("s1", DefaultConfig.model, p, 0) EXCEPT !.messages = h] :
          h \in Histories, p \in {None, "P"} }

BuildArgs ==
    { [fn |-> "build", session |-> sess, user_message |-> UserText, images |-> imgs] :
          sess \in Snapshots, imgs \in ImageArgs }

\* Number of parts in a content as_text is applied to, at most.
MaxParts == 3

\* Text parts (one of them empty) and an image part
PartPool ==
    { TextPart(<<"a">>), TextPart(<<"b">>), TextPart(<<>>), ImagePart(DataUrl(Png)) }

Contents ==
    { Text(t) : t \in {<<>>, <<"a">>, <<"a", NL, "b">>} }
    \cup { Parts(ps) : ps \in UNION { [1..n -> PartPool] : n \in 0..MaxParts } }

TextArgs == { [fn |-> "as_text", content |-> c] : c \in Contents }

pureOthers == <<sessions, clock, inputVars, streamVars, config, lock, chat, calls,
                chat_log, last_op, ops, fwd, arg, agent, app, goose, cmd, cmds, detached>>

Applied(fn, value) ==
    /\ out.fn = None
    /\ out' = [fn |-> fn, value |-> value]
    /\ UNCHANGED pureOthers

BuildWithHistory ==
    /\ arg.fn = "build"
    /\ Applied("build_messages_with_history",
               build_messages_with_history(config, arg.session, arg.user_message, arg.images))

BuildSingle ==
    /\ arg.fn = "build"
    /\ Applied("build_single_messages",
               build_single_messages(config, arg.user_message, arg.images))

AsText ==
    /\ arg.fn = "as_text"
    /\ Applied("as_text", as_text(arg.content))

BuildInit ==
    /\ sessions = InitialStore
    /\ clock = 0
    /\ script = <<>>
    /\ feed = <<>>
    /\ request = NativeChatRequest(None, NoImages)
    /\ StreamIdle
    /\ config \in Configs
    /\ CoreIdle
    /\ CmdIdle
    /\ arg \in BuildArgs \cup TextArgs
    /\ out = NoOut

BuildNext ==
    \/ BuildWithHistory
    \/ BuildSingle
    \/ AsText

BuildSpec == BuildInit /\ [][BuildNext]_vars

-----------------------------------------------------------------------------
(* C24 *)

\* The request message cm carries what the stored message am holds
SameMessage(cm, am) ==
    /\ cm.role = am.role
    /\ cm.content.kind = am.content.kind
    /\ cm.content.text = am.content.text
    /\ Len(cm.content.parts) = Len(am.content.parts)
    /\ \A j \in 1..Len(am.content.parts) :
          /\ cm.content.parts[j].type = am.content.parts[j].type
          /\ cm.content.parts[j].text = am.content.parts[j].text
          /\ cm.content.parts[j].url = am.content.parts[j].url
          /\ cm.content.parts[j].detail = am.content.parts[j].detail
    /\ cm.tool_calls.some = am.tool_calls.some
    /\ Len(cm.tool_calls.list) = Len(am.tool_calls.list)
    /\ \A j \in 1..Len(am.tool_calls.list) :
          /\ cm.tool_calls.list[j].id = am.tool_calls.list[j].id
          /\ cm.tool_calls.list[j].call_type = am.tool_calls.list[j].call_type
          /\ cm.tool_calls.list[j].function.name = am.tool_calls.list[j].function.name
          /\ cm.tool_calls.list[j].function.arguments = am.tool_calls.list[j].function.arguments
    /\ cm.tool_call_id = am.tool_call_id

C24_HistoryInOrder ==
    out.fn = "build_messages_with_history" =>
        LET history == arg.session.messages
            n == Len(history)
            k == IF arg.session.system_prompt # None \/ config.system_prompt # None
                 THEN 1 ELSE 0
            last == out.value[Len(out.value)]
        IN  /\ Len(out.value) = k + n + 1
            /\ \A i \in 1..n : SameMessage(out.value[k + i], history[i])
            /\ last.role = "user"
            /\ as_text(last.content) = arg.user_message

C24_BuildAct == out' # out => arg' = arg /\ sessions' = sessions

\* C24: for a snapshot with n messages the built request holds, after the
\* system message if there is one, exactly these n messages in their order,
\* each with its role, its content variant and parts and its tool-call
\* fields, and then the new user message as the last element; building
\* leaves the snapshot and the store as they were.
C24_HistoryTranscodedInOrder == []C24_HistoryInOrder /\ [][C24_BuildAct]_vars

\* A history of a tool call and its answer was built into a request.
C24_Witness ==
    /\ out.fn = "build_messages_with_history"
    /\ Len(arg.session.messages) = 2
    /\ arg.session.messages[1].tool_calls.some
    /\ arg.session.messages[2].role = "tool"
    /\ Len(out.value) = 4
    /\ out.value[2].tool_calls.list[1].function.name = "f"
    /\ out.value[3].tool_call_id = "c1"

-----------------------------------------------------------------------------
(* C25 *)

\* C25: the user message a builder puts last is plain Text holding the user
\* text when the request has zero images, be the image argument absent or
\* an empty list, and with N > 0 images it is Parts of exactly N + 1 parts:
\* the Text part with the user text, then one image part per input image in
\* input order with the URL data:<media_type>;base64,<data>.
C25_UserMessageShape ==
    out.fn \in {"build_messages_with_history", "build_single_messages"} =>
        LET last == out.value[Len(out.value)]
            imgs == arg.images.list
            N == Len(imgs)
        IN  /\ last.role = "user"
            /\ IF N = 0
               THEN last.content.kind = "Text" /\ last.content.text = arg.user_message
               ELSE /\ last.content.kind = "Parts"
                    /\ Len(last.content.parts) = N + 1
                    /\ last.content.parts[1].type = "text"
                    /\ last.content.parts[1].text = arg.user_message
                    /\ \A i \in 1..N :
                          /\ last.content.parts[i + 1].type = "image_url"
                          /\ last.content.parts[i + 1].url =
                                <<"data:", imgs[i].media_type, ";base64,", imgs[i].data>>

-----------------------------------------------------------------------------
(* NativeAgentState and the commands of native_agent_cmd.rs *)

\* Number of commands and state methods called, at most.
MaxCmds == 2

\* AppState: the server runs or not, its key is set or not
Apps == [running : BOOLEAN, running_api_key : {None, ApiKey}]

\* What no command and no method of NativeAgentState writes
shellRest == <<clock, inputVars, pos, buffer, full_content, event_lines, tx, ret,
               exit, config, lock, chat_log, last_op, ops, arg, out, goose>>
shellOthers == <<shellRest, detached>>

\* The command or method `name` is called and returns at once
Returns(name, err) ==
    /\ cmds < MaxCmds
    /\ cmd' = [cmd EXCEPT !.name = name, !.err = err]
    /\ cmds' = cmds + 1

\* The server is started with a key, and stopped
ServerStarts ==
    /\ ~app.running
    /\ app' = AppRunning
    /\ UNCHANGED <<sessions, agent, cmd, cmds, chat, calls, pc, session, fwd, shellOthers>>

ServerStops ==
    /\ app.running
    /\ app' = [running |-> FALSE, running_api_key |-> None]
    /\ UNCHANGED <<sessions, agent, cmd, cmds, chat, calls, pc, session, fwd, shellOthers>>

\* The error of lines 36-40, 102-106 and 158-162, None when there is none
ConfigError ==
    IF ~app.running THEN "ServerNotRunning"
    ELSE IF app.running_api_key = None THEN "NoApiKey"
    ELSE None

\* Mutant of Replace: the new agent takes over the store of the old one.
Replace_KeepsStore(a) ==
    /\ agent' = a
    /\ UNCHANGED <<sessions, detached>>

\* *self.agent.write() = a: the state lets go of its agent and of the store
\* of that agent, which lives on while a chat call under way shares it; the
\* store of a new agent is empty
Replace(a) ==
    /\ agent' = a
    /\ sessions' = EmptyStore
    /\ detached' = IF chat.pc \notin {"idle", "returned"} /\ detached.call # calls
                   THEN [call |-> calls, store |-> sessions]
                   ELSE detached

\* NativeAgentState::init: a new NativeAgent with a store of its own
StateInit == Replace(SomeAgent(BaseUrl, app.running_api_key))

\* Mutant of AutoInit: the agent is set before the server is looked at.
AutoInit_InitFirst ==
    IF agent.some THEN UNCHANGED <<agent, sessions, detached>> ELSE StateInit

\* Lines 92-109 and 148-165: an agent that is not initialized is, from the
\* running server; only called when ConfigError is None or the agent is there
AutoInit ==
    IF agent.some \/ ConfigError # None THEN UNCHANGED <<agent, sessions, detached>>
    ELSE StateInit

native_agent_init ==
    /\ Returns("native_agent_init", ConfigError)
    /\ IF ConfigError = None THEN StateInit ELSE UNCHANGED <<agent, sessions, detached>>
    /\ UNCHANGED <<app, chat, calls, pc, session, fwd, shellRest>>

native_agent_status ==
    /\ Returns("native_agent_status", None)
    /\ UNCHANGED <<sessions, agent, app, chat, calls, pc, session, fwd, shellOthers>>

\* NativeAgentState::reset: the agent is dropped, and its store with it
native_agent_reset ==
    /\ Returns("native_agent_reset", None)
    /\ Replace(NoAgent)
    /\ UNCHANGED <<app, chat, calls, pc, session, fwd, shellRest>>

\* native_agent_chat, lines 91-109: Err from the server's state, or on to
\* agent_state.chat
native_agent_chat ==
    /\ cmd.at = None
    /\ chat.pc \in {"idle", "returned"}
    /\ AutoInit
    /\ IF ~agent.some /\ ConfigError # None
       THEN Returns("native_agent_chat", ConfigError)
       ELSE /\ cmds < MaxCmds
            /\ cmd' = [cmd EXCEPT !.at = "chat"]
            /\ cmds' = cmds + 1
    /\ UNCHANGED <<app, chat, calls, pc, session, fwd, shellRest>>

\* NativeAgentState::chat, lines 604-630, and NativeAgent::chat up to send()
NativeAgentState_chat ==
    /\ cmd.at = "chat"
    /\ IF agent.some
       THEN /\ calls < MaxCalls
            /\ LET r == ChatRequest(None, NoImages, calls + 1)
               IN  chat' = [pc |-> "send", request |-> r, session |-> None,
                            messages |-> build_single_messages(config, r.message, r.images),
                            answer |-> NoAnswer, content |-> <<>>, ret |-> NoResult]
            /\ calls' = calls + 1
            /\ cmd' = [cmd EXCEPT !.name = "native_agent_chat", !.err = None, !.at = None]
       ELSE /\ cmd' = [cmd EXCEPT !.name = "native_agent_chat",
                                  !.err = "AgentNotInitialized", !.at = None]
            /\ UNCHANGED <<chat, calls>>
    /\ UNCHANGED <<sessions, agent, app, cmds, pc, session, fwd, shellOthers>>

\* native_agent_chat_stream, lines 147-165: as in native_agent_chat
native_agent_chat_stream ==
    /\ cmd.at = None
    /\ pc = "idle"
    /\ AutoInit
    /\ IF ~agent.some /\ ConfigError # None
       THEN Returns("native_agent_chat_stream", ConfigError)
       ELSE /\ cmds < MaxCmds
            /\ cmd' = [cmd EXCEPT !.at = "chat_stream"]
            /\ cmds' = cmds + 1
    /\ UNCHANGED <<app, chat, calls, pc, session, fwd, shellRest>>

\* Lines 168-227: the key is read again; the task is spawned with an agent
\* of its own, whose chat_stream runs up to send(); Ok(()) is returned.
SpawnStream ==
    /\ cmd.at = "chat_stream"
    /\ IF app.running_api_key = None
       THEN /\ cmd' = [cmd EXCEPT !.name = "native_agent_chat_stream",
                                  !.err = "NoApiKey", !.at = None]
            /\ UNCHANGED <<pc, session>>
       ELSE /\ cmd' = [cmd EXCEPT !.name = "native_agent_chat_stream",
                                  !.err = None, !.at = None]
            /\ pc' = "send"
            /\ session' = None
    /\ UNCHANGED <<sessions, agent, app, cmds, chat, calls, fwd, shellOthers>>

\* native_agent_create_session and NativeAgentState::create_session
NativeAgentState_create_session ==
    IF agent.some THEN create_session
    ELSE /\ Returns("create_session", "AgentNotInitialized")
         /\ UNCHANGED <<sessions, agent, app, chat, calls, pc, session, fwd, shellOthers>>

\* native_agent_get_session and NativeAgentState::get_session
NativeAgentState_get_session ==
    IF agent.some THEN get_session
    ELSE /\ Returns("get_session", "AgentNotInitialized")
         /\ UNCHANGED <<sessions, agent, app, chat, calls, pc, session, fwd, shellOthers>>

\* NativeAgentState::chat_stream, lines 633-662, and NativeAgent::chat_stream
\* up to send()
NativeAgentState_chat_stream ==
    /\ pc = "idle"
    /\ cmd.at = None
    /\ IF agent.some
       THEN /\ Returns("chat_stream", None)
            /\ pc' = "send"
            /\ session' = None
       ELSE /\ Returns("chat_stream", "AgentNotInitialized")
            /\ UNCHANGED <<pc, session>>
    /\ UNCHANGED <<sessions, agent, app, chat, calls, fwd, shellOthers>>

\* NativeAgentState::new(), any state of the server, nothing called
CmdInit ==
    /\ sessions = EmptyStore
    /\ clock = 0
    /\ script = StoreScript
    /\ feed = Render(script)
    /\ request = NativeChatRequest(None, NoImages)
    /\ StreamIdle
    /\ config = DefaultConfig
    /\ CoreIdle
    /\ PureIdle
    /\ agent = NoAgent
    /\ app \in Apps
    /\ goose = GooseNew
    /\ cmd = NoCmd
    /\ cmds = 0

CmdNext ==
    \/ ServerStarts
    \/ ServerStops
    \/ native_agent_init
    \/ native_agent_status
    \/ native_agent_reset
    \/ native_agent_chat
    \/ NativeAgentState_chat
    \/ native_agent_chat_stream
    \/ SpawnStream
    \/ NativeAgentState_create_session
    \/ NativeAgentState_get_session
    \/ NativeAgentState_chat_stream
    \/ ChatSendFailed
    \/ ChatStatusNotSuccess
    \/ ChatBodyInvalid
    \/ ChatSuccess
    \/ SendFailed
    \/ StatusNotSuccess
    \/ StatusSuccess
    \/ ChunkOk
    \/ ChunkErr
    \/ StreamEnd
    \/ FindBlock
    \/ ProcessLine
    \/ SendDoneEnd
    \/ FwdForward
    \/ FwdEmitFails
    \/ FwdClosed
    \/ FwdJoin

CmdSpec == CmdInit /\ [][CmdNext]_vars

-----------------------------------------------------------------------------
(* C26 *)

\* The agent is not initialized and cannot be: no server, or no key
MissingConfig == ~agent.some /\ ConfigError # None

\* The step calls the command or method `name`, which returns in this step
CallReturns(name) == cmds' = cmds + 1 /\ cmd'.at = cmd.at /\ cmd'.name = name

\* No request is built or sent, no task spawned, no event sent or emitted,
\* the store is as it was
NothingAttempted ==
    /\ chat' = chat
    /\ calls' = calls
    /\ pc' = pc
    /\ tx' = tx
    /\ fwd' = fwd
    /\ sessions' = sessions
    /\ ops' = ops

\* native_agent_chat and native_agent_chat_stream without configuration
C26_CommandAct ==
    MissingConfig =>
        /\ cmd.at = None => cmd'.at = None
        /\ CallReturns("native_agent_chat") \/ CallReturns("native_agent_chat_stream") =>
              /\ cmd'.err = ConfigError
              /\ agent' = agent
              /\ NothingAttempted

\* The methods of NativeAgentState without an agent
C26_StateAct ==
    ~agent.some =>
        /\ cmd.at = "chat" /\ cmd'.at = None =>
              cmd'.err = "AgentNotInitialized" /\ agent' = agent /\ NothingAttempted
        /\ CallReturns("chat_stream") \/ CallReturns("create_session") \/ CallReturns("get_session") =>
              cmd'.err = "AgentNotInitialized" /\ agent' = agent /\ NothingAttempted
        /\ ops' = ops

\* C26: while the agent is not initialized and the server is not running or
\* has no key, a call of native_agent_chat or native_agent_chat_stream
\* returns the error in its first step: the agent stays uninitialized, no
\* request is built or sent and no event is emitted; chat, chat_stream,
\* create_session and get_session of a NativeAgentState without an agent
\* return an error and leave requests and store alone.
C26_MissingConfigFailsFast == [][C26_CommandAct /\ C26_StateAct]_vars

\* native_agent_chat_stream was refused for the missing key: nothing was
\* started and nothing emitted.
C26_Witness ==
    /\ cmd.name = "native_agent_chat_stream"
    /\ cmd.err = "NoApiKey"
    /\ cmd.at = None
    /\ ~agent.some
    /\ pc = "idle"
    /\ chat.pc = "idle"
    /\ fwd.ui = <<>>
    /\ tx = <<>>

-----------------------------------------------------------------------------
(* GooseAgentState *)

\* The providers and models init is called with
Providers == {"anthropic", "openai", "ollama"}
Models == {"claude-sonnet-4-20250514", "gpt-4o"}

\* Some(Arc::new(manager)) of a manager made for provider and model
SomeManager(provider_name, model_name) ==
    [some |-> TRUE, provider_name |-> provider_name, model_name |-> model_name]

gooseOthers == <<sessions, clock, inputVars, streamVars, config, lock, chat, calls,
                 chat_log, last_op, ops, fwd, arg, out, agent, app, detached>>

\* GooseAgentState::is_initialized
is_initialized == goose.agent.some

\* GooseAgentState::get_provider_info
get_provider_info ==
    IF goose.agent.some
    THEN [some |-> TRUE, provider_name |-> goose.agent.provider_name,
          model_name |-> goose.agent.model_name]
    ELSE [some |-> FALSE, provider_name |-> None, model_name |-> None]

\* init is called: GooseAgentManager::new(provider_name, model_name) is awaited
GooseInitCall ==
    /\ cmds < MaxCmds
    /\ \E p \in Providers, m \in Models :
          goose' = [goose EXCEPT !.inits = @ \cup {[call |-> cmds + 1, provider_name |-> p,
                                                    model_name |-> m]}]
    /\ cmds' = cmds + 1
    /\ UNCHANGED <<cmd, gooseOthers>>

\* Mutant of GooseInitFails: the state is emptied when the manager cannot be made.
GooseInitFails_Clears ==
    /\ \E i \in goose.inits :
          goose' = [agent |-> NoManager, inits |-> goose.inits \ {i}]
    /\ cmd' = [cmd EXCEPT !.name = "init", !.err = "InitFailed"]
    /\ UNCHANGED <<cmds, gooseOthers>>

\* GooseAgentManager::new returns Err: `?` returns it, nothing is written
GooseInitFails ==
    /\ \E i \in goose.inits :
          goose' = [goose EXCEPT !.inits = @ \ {i}]
    /\ cmd' = [cmd EXCEPT !.name = "init", !.err = "InitFailed"]
    /\ UNCHANGED <<cmds, gooseOthers>>

\* GooseAgentManager::new returns the manager: it is written under the lock
GooseInitOk ==
    /\ \E i \in goose.inits :
          goose' = [agent |-> SomeManager(i.provider_name, i.model_name),
                    inits |-> goose.inits \ {i}]
    /\ cmd' = [cmd EXCEPT !.name = "init", !.err = None]
    /\ UNCHANGED <<cmds, gooseOthers>>

\* GooseAgentState::reset
GooseReset ==
    /\ cmds < MaxCmds
    /\ goose' = [goose EXCEPT !.agent = NoManager]
    /\ cmd' = [cmd EXCEPT !.name = "reset", !.err = None]
    /\ cmds' = cmds + 1
    /\ UNCHANGED gooseOthers

GooseInit ==
    /\ sessions = EmptyStore
    /\ clock = 0
    /\ script = <<>>
    /\ feed = <<>>
    /\ request = NativeChatRequest(None, NoImages)
    /\ StreamIdle
    /\ config = DefaultConfig
    /\ CoreIdle
    /\ PureIdle
    /\ agent = NoAgent
    /\ app = AppRunning
    /\ goose = GooseNew
    /\ cmd = NoCmd
    /\ cmds = 0

GooseNext ==
    \/ GooseInitCall
    \/ GooseInitFails
    \/ GooseInitOk
    \/ GooseReset

GooseSpec == GooseInit /\ [][GooseNext]_vars

-----------------------------------------------------------------------------
(* C27 *)

\* An init call ends in this step, with or without error
InitEnds(err) ==
    /\ goose'.inits # goose.inits
    /\ goose'.inits \subseteq goose.inits
    /\ cmd'.name = "init"
    /\ cmd'.err = err

ResetStep == cmds' = cmds + 1 /\ cmd'.name = "reset"

\* A new state is not initialized; get_provider_info returns a value exactly
\* when is_initialized() is true
C27_State ==
    /\ get_provider_info.some <=> is_initialized
    /\ goose.inits = {} /\ cmd.name = None => ~is_initialized

\* is_initialized() becomes true by an init that succeeds and false by a
\* reset, and by nothing else; a failed init leaves the value as it was
C27_Act ==
    /\ InitEnds(None) => is_initialized'
    /\ ResetStep => ~is_initialized'
    /\ InitEnds("InitFailed") => goose'.agent = goose.agent
    /\ ~is_initialized /\ is_initialized' => InitEnds(None)
    /\ is_initialized /\ ~is_initialized' => ResetStep

\* C27: is_initialized() is true exactly when an init has succeeded since
\* the state was created or last reset, get_provider_info() returns a value
\* exactly when is_initialized() is true, a new state and a state after
\* reset are not initialized, and a failed init changes nothing.
C27_InitializedIffInitSucceeded == []C27_State /\ [][C27_Act]_vars

\* An init has failed after an earlier one succeeded: the state still holds
\* the manager of the first.
C27_Witness ==
    /\ cmd.name = "init"
    /\ cmd.err = "InitFailed"
    /\ is_initialized
    /\ get_provider_info.provider_name = "ollama"

-----------------------------------------------------------------------------
(* C28 *)

\* The texts of the Text parts in order, a newline before each but the
\* first; parts that are not Text are passed over
RECURSIVE TextsWithNewlines(_, _)
TextsWithNewlines(parts, first) ==
    IF parts = <<>> THEN <<>>
    ELSE IF Head(parts).type = "text"
         THEN (IF first THEN <<>> ELSE <<NL>>) \o Head(parts).text
              \o TextsWithNewlines(Tail(parts), FALSE)
         ELSE TextsWithNewlines(Tail(parts), first)

\* C28: as_text of a Text content is its string; as_text of a Parts content
\* is the texts of its Text parts in order, joined by newlines, whatever
\* image parts stand between them, and the empty string without a Text part.
C28_AsTextJoinsTextParts ==
    out.fn = "as_text" =>
        IF arg.content.kind = "Text"
        THEN out.value = arg.content.text
        ELSE /\ out.value = TextsWithNewlines(arg.content.parts, TRUE)
             /\ (\A i \in 1..Len(arg.content.parts) :
                    arg.content.parts[i].type # "text") => out.value = <<>>

\* Two texts with an image between them came out joined by one newline.
C28_Witness ==
    /\ out.fn = "as_text"
    /\ arg.content.kind = "Parts"
    /\ Len(arg.content.parts) = 3
    /\ arg.content.parts[1].type = "text"
    /\ arg.content.parts[2].type = "image_url"
    /\ arg.content.parts[3].type = "text"
    /\ out.value = <<"a", NL, "b">>

-----------------------------------------------------------------------------
(* C29 *)

\* Every step but a clear of the session keeps what the session held as the
\* front of what it holds
C29_AppendAct ==
    \A sid \in DOMAIN sessions \cap DOMAIN sessions' :
        \/ IsPrefix(sessions[sid].messages, sessions'[sid].messages)
        \/ Calls("clear_session_messages") /\ last_op'.id = sid

\* The timestamps of a list never go down
C29_Chronological ==
    \A sid \in DOMAIN sessions :
        \A i, j \in 1..Len(sessions[sid].messages) :
            i < j => sessions[sid].messages[i].timestamp <= sessions[sid].messages[j].timestamp

\* C29: every operation other than clear_session_messages and
\* delete_session leaves the message list a session had as a prefix of the
\* list it has afterwards, and the timestamps within a list are
\* non-decreasing.
C29_AppendOnlyBetweenClears == []C29_Chronological /\ [][C29_AppendAct]_vars

\* chat and chat_stream both stored their turn in "s1" behind the earlier
\* one, the last message later than the first.
C29_Witness ==
    /\ "s1" \in DOMAIN sessions
    /\ Len(sessions["s1"].messages) = 6
    /\ sessions["s1"].messages[1].timestamp < sessions["s1"].messages[6].timestamp
    /\ chat.pc = "returned"
    /\ pc = "returned"

-----------------------------------------------------------------------------
(* C30 *)

\* C30: the user message a call sent and then committed to session "s1"
\* comes back in the request of every later call on "s1", at its place in
\* the history, as the same message: role, content variant, text, number and
\* order of parts and image URLs, be the images of the committing request
\* absent, an empty list, or N images.
C30_UserMessageRoundTrips ==
    LET done == CommittedTo("s1")
        base == Len(InitialStore["s1"].messages)
    IN  \A i \in done : \A l \in 1..Len(chat_log) :
            (i < l /\ chat_log[l].request.session_id = "s1") =>
                LET sent == chat_log[i].messages[Len(chat_log[i].messages)]
                    place == base + 2 * Cardinality({j \in done : j < i}) + 1
                    again == WithoutSystem(chat_log[l].messages)[place]
                IN  /\ again.role = sent.role
                    /\ again.content.kind = sent.content.kind
                    /\ again.content.text = sent.content.text
                    /\ Len(again.content.parts) = Len(sent.content.parts)
                    /\ \A n \in 1..Len(sent.content.parts) :
                          /\ again.content.parts[n].type = sent.content.parts[n].type
                          /\ again.content.parts[n].text = sent.content.parts[n].text
                          /\ again.content.parts[n].url = sent.content.parts[n].url
                    /\ again = sent

\* A request with the most images was committed to "s1" and the next call
\* on "s1" has returned.
C30_Witness ==
    /\ Len(chat_log) >= 2
    /\ chat_log[1].request.session_id = "s1"
    /\ chat_log[1].request.images.some
    /\ Len(chat_log[1].request.images.list) = MaxImages
    /\ chat_log[2].request.session_id = "s1"
    /\ Len(WithoutSystem(chat_log[2].messages)[3].content.parts) = MaxImages + 1

-----------------------------------------------------------------------------
(* chat_stream and a consumer that receives from the channel or drops its
   receiver *)

\* A body that ends at the sentinel, and one that ends without it
RecvScripts ==
    { <<[line |-> <<DATA, SP, JsonA>>, sep |-> 2], [line |-> <<DATA, SP, DONE>>, sep |-> 2]>>,
      StoreScript }

\* The caller of chat_stream drops the receiver of the channel it passed
DropReceiver ==
    /\ fwd.rx_open
    /\ fwd' = [fwd EXCEPT !.pc = "finished", !.rx_open = FALSE]
    /\ UNCHANGED fwdOthers

RecvInit ==
    /\ sessions = InitialStore
    /\ clock = 0
    /\ script \in RecvScripts
    /\ feed = Render(script)
    /\ request \in Requests
    /\ StreamIdle
    /\ config = DefaultConfig
    /\ RestInit

RecvNext ==
    \/ Start
    \/ SendFailed
    \/ StatusNotSuccess
    \/ StatusSuccess
    \/ ChunkOk
    \/ ChunkErr
    \/ StreamEnd
    \/ FindBlock
    \/ ProcessLine
    \/ CommitUser
    \/ CommitAssistant
    \/ SendDoneSentinel
    \/ SendDoneEnd
    \/ FwdForward
    \/ DropReceiver

RecvSpec == RecvInit /\ [][RecvNext]_vars

-----------------------------------------------------------------------------
(* C31 *)

\* The session of the request holds the turn of the invocation behind what
\* it held before
TurnStored ==
    /\ Len(After) = Len(Before) + 2
    /\ IsPrefix(Before, After)
    /\ After[Len(After) - 1].role = "user"
    /\ as_text(After[Len(After) - 1].content) = request.message
    /\ After[Len(After)].role = "assistant"
    /\ After[Len(After)].content = Text(full_content)

\* C31: on a stored session the turn of the invocation is in the store in
\* every state in which Done is about to be sent, has been sent, or has been
\* received by the consumer; and the turn is stored when chat_stream returns
\* Ok whether the TextDelta and Done sends reached a receiver or not.
C31_CommitBeforeDone ==
    SessionKnown =>
        /\ pc \in {"done_send", "end_send"} => TurnStored
        /\ Count(tx, IsDone) > 0 => TurnStored
        /\ Count(fwd.ui, IsDone) > 0 => TurnStored
        /\ (Returned /\ ret = "Ok") => TurnStored

\* The receiver was dropped before any event was sent: chat_stream decoded
\* the body to its sentinel, stored the turn and returned Ok.
C31_Witness ==
    /\ Returned /\ exit = "sentinel" /\ SessionKnown
    /\ ~fwd.rx_open
    /\ tx = <<>>
    /\ full_content = <<"A">>
    /\ TurnStored

-----------------------------------------------------------------------------
(* One chat_stream call over the bodies of payload and sentinel lines, cut
   into chunks in every way *)

ChunkLineForms ==
    { <<DATA, SP, JsonA>>, <<DATA, SP, JsonB>>, <<DATA, SP, DONE>>, <<DATA, SP, Garbage>> }

ChunkScripts == { s \in Scripts : \A i \in 1..Len(s) : s[i].line \in ChunkLineForms }

ChunkInit ==
    /\ sessions = InitialStore
    /\ clock = 0
    /\ script \in ChunkScripts
    /\ feed = Render(script)
    /\ request \in { NativeChatRequest(None, NoImages), NativeChatRequest("s1", NoImages) }
    /\ StreamIdle
    /\ config = DefaultConfig
    /\ RestInit

ChunkSpec == ChunkInit /\ [][Next]_vars

-----------------------------------------------------------------------------
(* C32 *)

NotError(e) == ~IsError(e)

\* C32: however the transport cuts the body into chunks, the events sent so
\* far, an Error for a failed read aside, are the first events of the
\* sequence the body decodes to as one piece; a call that returns Ok has sent
\* exactly that sequence, and the assistant text it stores is the
\* concatenation of its deltas.
C32_ChunkingIndependent ==
    /\ IsPrefix(SelectSeq(tx, NotError), Decode(feed))
    /\ (Returned /\ ret = "Ok") =>
          /\ tx = Decode(feed)
          /\ full_content = Concat(DeltaTexts(Decode(feed)))
          /\ SessionKnown =>
                After[Len(After)].content = Text(Concat(DeltaTexts(Decode(feed))))

\* A first block was decoded, and the chunk after it ended between the
\* "data:" and the space of the next line.
C32_Witness ==
    /\ pc = "next_chunk"
    /\ buffer = <<DATA>>
    /\ pos < Len(feed)
    /\ feed[pos + 1] = SP
    /\ tx = <<TextDelta(<<"A">>)>>
    /\ Decode(feed) = <<TextDelta(<<"A">>), TextDelta(<<"B">>), DoneEvent>>

-----------------------------------------------------------------------------
(* C33 *)

\* The lines of a script that no blank line follows, and the script without them
Unterminated(s) == {i \in 1..Len(s) : ~Complete(s, i)}
TerminatedPart(s) == SubSeq(s, 1, Len(s) - Cardinality(Unterminated(s)))
UnterminatedPart(s) == SubSeq(s, Len(s) - Cardinality(Unterminated(s)) + 1, Len(s))

\* C33: when chat_stream returns at the end of the feed, the deltas sent and
\* the accumulated text are those of the lines a blank line follows, and of
\* no other; the bytes after the last blank line are still in the buffer,
\* undecoded, be they a payload line or "data: [DONE]"; one Done is sent, as
\* the last event, and on a stored session the turn is stored with the
\* accumulated text.  A sentinel line that no blank line follows does not
\* end the stream at the sentinel.
C33_UnterminatedTailDiscarded ==
    /\ (Returned /\ exit = "end_of_feed") =>
          /\ DeltaTexts(tx) = PayloadContents(TerminatedPart(script))
          /\ full_content = Concat(PayloadContents(TerminatedPart(script)))
          /\ buffer = Render(UnterminatedPart(script))
          /\ Count(tx, IsDone) = 1
          /\ tx[Len(tx)] = DoneEvent
          /\ SessionKnown => TurnStored
    /\ (Returned /\ ret = "Ok" /\ FirstSentinel(script) = 0) => exit = "end_of_feed"

\* The body ended with "data: [DONE]" and no newline after it: the line is
\* left in the buffer, Done is sent for the end of the feed, and the turn
\* holds the text of the block before.
C33_Witness ==
    /\ Returned /\ exit = "end_of_feed" /\ SessionKnown
    /\ Len(script) = 2
    /\ script[2].line = <<DATA, SP, DONE>> /\ script[2].sep = 0
    /\ buffer = <<DATA, SP, DONE>>
    /\ tx = <<TextDelta(<<"A">>), DoneEvent>>
    /\ After[Len(After)].content = Text(<<"A">>)

-----------------------------------------------------------------------------
(* C37 *)

\* C37: chat_stream returns Ok exactly when it has sent Done, and Err
\* exactly when it has sent Error or send() failed, in which case no event
\* was sent at all; Done and Error are never both sent, Ok never follows an
\* Error and Err never a Done; and no terminal event is in the channel
\* before chat_stream has returned.
C37_ReturnAgreesWithTerminal ==
    /\ Returned =>
          /\ ret \in {"Ok", "Err"}
          /\ ret = "Ok" <=> (Count(tx, IsDone) = 1 /\ IsDone(tx[Len(tx)]))
          /\ ret = "Err" <=> (Count(tx, IsError) = 1 \/ exit = "send_failed")
          /\ exit = "send_failed" => tx = <<>>
          /\ ~(ret = "Ok" /\ Count(tx, IsError) > 0)
          /\ ~(ret = "Err" /\ Count(tx, IsDone) > 0)
    /\ ~Returned => ret = None /\ Count(tx, IsTerminal) = 0

\* A read failed after a delta was sent: Error was sent and Err returned.
C37_Witness ==
    /\ Returned /\ ret = "Err" /\ exit = "read_error"
    /\ tx = <<TextDelta(<<"B">>), ErrorEvent>>

-----------------------------------------------------------------------------
(* C34 *)

\* The texts the messages of the two invocations hold: what the callers
\* said, what the endpoint answered
TurnTexts ==
    {request.message, <<"A">>}
    \cup (IF chat.pc = "idle" THEN {} ELSE {chat.request.message, <<"R">>})

\* A stored session of old that the store holds no more
Gone(sid) == sid \in DOMAIN InitialStore /\ sid \notin DOMAIN sessions

\* With the session of the invocations gone, no message of theirs is stored
NoTraceOf(sid) ==
    Gone(sid) =>
        \A k \in DOMAIN sessions : \A i \in 1..Len(sessions[k].messages) :
            as_text(sessions[k].messages[i].content) \notin TurnTexts

C34_State ==
    /\ (chat.pc # "idle" /\ chat.request.session_id # None) => NoTraceOf(chat.request.session_id)
    /\ request.session_id # None => NoTraceOf(request.session_id)
    /\ (Returned /\ exit = "end_of_feed" /\ Gone(request.session_id)) =>
          /\ ret = "Ok"
          /\ tx = <<TextDelta(<<"A">>), DoneEvent>>
    /\ (ChatReturned /\ chat.answer.kind = "success" /\ Gone(chat.request.session_id)) =>
          /\ chat.ret.kind = "Ok"
          /\ chat.ret.response.success
          /\ chat.ret.response.content = chat.answer.content

\* No step puts a deleted session back, and with the session gone the two
\* commits of chat and of chat_stream go on to the response and to Done
C34_Act ==
    /\ \A sid \in DOMAIN InitialStore : Gone(sid) => sid \notin DOMAIN sessions'
    /\ (chat.pc \in {"commit_user", "commit_assistant"} /\ chat' # chat
            /\ Gone(chat.request.session_id)) =>
          /\ sessions' = sessions
          /\ chat'.pc = IF chat.pc = "commit_user" THEN "commit_assistant" ELSE "returned"
    /\ (pc \in {"end_user", "end_assistant"} /\ pc' # pc /\ Gone(request.session_id)) =>
          /\ sessions' = sessions
          /\ pc' = IF pc = "end_user" THEN "end_assistant" ELSE "end_send"

\* C34: once delete_session has removed the session a chat or chat_stream
\* call names, be it before the commit or between its two writes, the call
\* goes through both add_message_to_session calls without writing and
\* returns success = true, or sends Done and returns Ok; no step puts the
\* session back; and no session of the store holds a message of the call.
C34_DeleteInFlight == []C34_State /\ [][C34_Act]_vars

\* chat built its request from the stored history of "s1" and has the
\* answer; "s1" was deleted before chat's second write, and chat_stream,
\* which names "s1" too, has sent Done and returned Ok.
C34_Witness ==
    /\ chat.pc = "commit_assistant"
    /\ chat.request.session_id = "s1"
    /\ Len(chat.messages) = 3
    /\ last_op = [op |-> "delete_session", id |-> "s1", result |-> TRUE]
    /\ "s1" \notin DOMAIN sessions
    /\ request.session_id = "s1"
    /\ Returned /\ ret = "Ok"
    /\ tx = <<TextDelta(<<"A">>), DoneEvent>>

-----------------------------------------------------------------------------
(* C35 *)

\* How many messages each call has appended to "s1" so far
StreamAdded ==
    IF request.session_id # "s1" THEN 0
    ELSE IF pc \in {"done_assistant", "end_assistant"} THEN 1
    ELSE IF pc \in {"done_send", "end_send"} \/ (Returned /\ ret = "Ok") THEN 2
    ELSE 0

ChatAdded ==
    IF chat.pc = "idle" THEN 0
    ELSE IF chat.request.session_id # "s1" THEN 0
    ELSE IF chat.pc = "commit_assistant" THEN 1
    ELSE IF ChatReturned /\ chat.ret.kind = "Ok" /\ chat.ret.response.success THEN 2
    ELSE 0

\* Where "s1" holds a message with this role and this content, behind the
\* messages it held at the start
PlacesOf(role, content) ==
    {i \in (Len(InitialStore["s1"].messages) + 1)..Len(sessions["s1"].messages) :
        /\ sessions["s1"].messages[i].role = role
        /\ sessions["s1"].messages[i].content = content}

\* The user message is stored once and, when the answer is stored, once
\* before it
OwnOrder(added, user, assistant) ==
    /\ added >= 1 => Cardinality(PlacesOf("user", user)) = 1
    /\ added = 2 =>
          /\ Cardinality(PlacesOf("assistant", assistant)) = 1
          /\ \A i \in PlacesOf("user", user) : \A j \in PlacesOf("assistant", assistant) : i < j

\* With no store operation called, "s1" holds what it held and behind it
\* one message for every write of the two calls
C35_NothingLost ==
    ops = 0 =>
        /\ Len(sessions["s1"].messages) =
               Len(InitialStore["s1"].messages) + StreamAdded + ChatAdded
        /\ IsPrefix(InitialStore["s1"].messages, sessions["s1"].messages)
        /\ OwnOrder(StreamAdded, Text(request.message), Text(full_content))
        /\ chat.pc # "idle" =>
              OwnOrder(ChatAdded,
                       IF chat.request.images.some
                       THEN Parts(<<TextPart(chat.request.message),
                                    ImagePart(DataUrl(chat.request.images.list[1]))>>)
                       ELSE Text(chat.request.message),
                       Text(chat.content))

\* The request a call builds holds the messages the session holds in the
\* state in which the call takes its snapshot, and the new user message
C35_SnapshotAct ==
    /\ (pc = "idle" /\ pc' = "send" /\ request.session_id \in DOMAIN sessions) =>
          session' = sessions[request.session_id]
    /\ (calls' = calls + 1 /\ chat'.request.session_id # None
            /\ chat'.request.session_id \in DOMAIN sessions) =>
          LET stored == sessions[chat'.request.session_id].messages
              built == WithoutSystem(chat'.messages)
          IN  /\ chat'.session = sessions[chat'.request.session_id]
              /\ Len(built) = Len(stored) + 1
              /\ \A i \in 1..Len(stored) : built[i] = convert_to_chat_message(stored[i])

\* C35: with a chat call and a chat_stream call on the stored session "s1"
\* interleaved in every way and no store operation called, "s1" holds, behind
\* what it held, exactly one message for each write of the two calls, two
\* for a call that succeeded; the user message of a call is stored once and
\* before the assistant message of the same call; and the request of a call
\* is built from the messages the session held when the call took its
\* snapshot.
C35_NoCommitLost == []C35_NothingLost /\ [][C35_SnapshotAct]_vars

\* The two calls wrote in turns: user of chat, user of chat_stream,
\* assistant of chat, assistant of chat_stream.
C35_Witness ==
    /\ ops = 0
    /\ ChatReturned /\ Returned /\ ret = "Ok"
    /\ Len(sessions["s1"].messages) = 6
    /\ sessions["s1"].messages[3].content = Text(<<"m">>)
    /\ sessions["s1"].messages[4].content = Text(<<"h", "i">>)
    /\ sessions["s1"].messages[5].content = Text(<<"R">>)
    /\ sessions["s1"].messages[6].content = Text(<<"A">>)
    /\ Len(chat.messages) = 3

-----------------------------------------------------------------------------
(* C36 *)

\* The step belongs to an operation that names the session B
Names(B) ==
    \/ pc' # pc /\ request.session_id = B
    \/ /\ chat.pc \in {"commit_user", "commit_assistant"}
       /\ chat' # chat
       /\ chat.request.session_id = B
    \/ Calls("clear_session_messages") /\ last_op'.id = B
    \/ Calls("delete_session") /\ last_op'.id = B

C36_FrameAct ==
    /\ \A B \in DOMAIN sessions :
          (B \notin DOMAIN sessions' \/ sessions'[B] # sessions[B]) => Names(B)
    /\ Calls("create_session") =>
          /\ DOMAIN sessions' = DOMAIN sessions \cup {last_op'.id}
          /\ last_op'.id \notin DOMAIN sessions
          /\ \A B \in DOMAIN sessions : sessions'[B] = sessions[B]

\* C36: a step that removes a session from the store or changes any field
\* of it is a step of a chat or chat_stream call, a clear_session_messages
\* or a delete_session that names this session; create_session adds a
\* session under a new id and leaves every stored session as it is.
C36_OtherSessionsUnchanged == [][C36_FrameAct]_vars

\* "s2" was deleted after chat and chat_stream stored their turns in "s1":
\* "s1" holds the six messages.
C36_Witness ==
    /\ last_op = [op |-> "delete_session", id |-> "s2", result |-> TRUE]
    /\ "s2" \notin DOMAIN sessions
    /\ "s1" \in DOMAIN sessions
    /\ Len(sessions["s1"].messages) = 6
    /\ sessions["s1"].messages[6].role = "assistant"

-----------------------------------------------------------------------------
(* NativeAgentState: init and reset under the calls of its other methods *)

\* The requests of NativeAgentState::chat: a stored session, or no session
ResetRequests(n) == { ChatRequest("s1", NoImages, n), ChatRequest(None, NoImages, n) }

\* NativeAgentState::init called by its owner, lines 590-594
NativeAgentState_init ==
    /\ Returns("init", None)
    /\ Replace(SomeAgent(BaseUrl, ApiKey))
    /\ UNCHANGED <<app, chat, calls, pc, session, fwd, shellRest>>

\* NativeAgentState::chat with the request of its caller, lines 604-630:
\* Err without an agent, or a temporary agent that shares the store of the
\* agent there is, and NativeAgent::chat up to send(); the caller calls once
NativeAgentState_chat_request ==
    /\ calls = 0
    /\ chat.pc \in {"idle", "returned"}
    /\ IF agent.some
       THEN ChatCallOf(ResetRequests(calls + 1))
       ELSE /\ Returns("chat", "AgentNotInitialized")
            /\ UNCHANGED <<sessions, agent, app, chat, calls, pc, session, fwd, shellOthers>>

\* NativeAgentState::delete_session, lines 681-688: false without an agent
NativeAgentState_delete_session ==
    IF agent.some THEN delete_session
    ELSE /\ \E session_id \in CallerIds : Called("delete_session", session_id, FALSE)
         /\ UNCHANGED <<sessions, clock, opOthers>>

\* NativeAgentState::list_sessions, lines 690-697: Vec::new() without an agent
NativeAgentState_list_sessions ==
    IF agent.some THEN list_sessions
    ELSE /\ Called("list_sessions", None, {})
         /\ UNCHANGED <<sessions, clock, opOthers>>

\* An initialized state whose agent stores "s1" and "s2"
ResetInit ==
    /\ sessions = InitialStore
    /\ clock = 0
    /\ script = StoreScript
    /\ feed = Render(script)
    /\ request = NativeChatRequest(None, NoImages)
    /\ StreamIdle
    /\ config = DefaultConfig
    /\ RestInit

ResetNext ==
    \/ NativeAgentState_init
    \/ native_agent_reset
    \/ NativeAgentState_chat_request
    \/ ChatSendFailed
    \/ ChatSuccess
    \/ ChatCommitUser
    \/ ChatCommitAssistant
    \/ NativeAgentState_create_session
    \/ NativeAgentState_get_session
    \/ NativeAgentState_delete_session
    \/ NativeAgentState_list_sessions

ResetSpec == ResetInit /\ [][ResetNext]_vars

-----------------------------------------------------------------------------
(* C38 *)

\* The step is a call of init or of reset
Replaces == cmds' = cmds + 1 /\ cmd'.name \in {"init", "native_agent_reset"}

\* The step is a call of get_session, with an agent or without
GetsSession == Calls("get_session") \/ CallReturns("get_session")

\* The chat call under way began before an init or a reset
Across == detached.call = calls

\* init and reset leave the state with no session; a session enters the
\* store in create_session only, under an id no session had before
C38_ReplaceAct ==
    /\ Replaces => sessions' = EmptyStore
    /\ \A sid \in DOMAIN sessions' \ DOMAIN sessions :
          Calls("create_session") /\ sid = NewIds[ops + 1]

\* What the state answers for a session it does not store
C38_LookupAct ==
    /\ Calls("get_session") /\ last_op'.id \notin DOMAIN sessions => ~last_op'.result.some
    /\ Calls("list_sessions") => last_op'.result = {sessions[k] : k \in DOMAIN sessions}
    /\ Calls("delete_session") /\ last_op'.id \notin DOMAIN sessions =>
          last_op'.result = FALSE /\ sessions' = sessions

\* A chat call under way when init or reset is called keeps the store that
\* was replaced, and writes its two messages there
C38_AcrossAct ==
    /\ Replaces /\ chat.pc \notin {"idle", "returned"} =>
          /\ detached'.call = calls
          /\ ~Across => detached'.store = sessions
    /\ chat.pc \in {"commit_user", "commit_assistant"} /\ chat' # chat /\ Across =>
          LET sid == chat.request.session_id
              text == IF chat.pc = "commit_user" THEN chat.request.message ELSE chat.content
          IN  /\ sessions' = sessions
              /\ sid \in DOMAIN detached.store =>
                    LET was == detached.store[sid].messages
                        is == detached'.store[sid].messages
                    IN  /\ Len(is) = Len(was) + 1
                        /\ SubSeq(is, 1, Len(was)) = was
                        /\ is[Len(is)].role =
                              IF chat.pc = "commit_user" THEN "user" ELSE "assistant"
                        /\ as_text(is[Len(is)].content) = text

\* No session of the state holds what the caller of that chat call said, and
\* the call returns the answer of the endpoint
C38_State ==
    /\ detached.call > 0 =>
          \A k \in DOMAIN sessions : \A i \in 1..Len(sessions[k].messages) :
              as_text(sessions[k].messages[i].content) # CallText(detached.call)
    /\ ChatReturned /\ Across /\ chat.answer.kind = "success" =>
          /\ chat.ret.kind = "Ok"
          /\ chat.ret.response.success

\* The claim as it was made: get_session returns none for every session
\* created before an init or a reset, which every call of get_session for a
\* session that is not stored then does.
C38_GetSessionReturnsNone ==
    /\ []C38_State
    /\ [][/\ C38_ReplaceAct
          /\ C38_LookupAct
          /\ C38_AcrossAct
          /\ GetsSession => Calls("get_session")]_vars

\* C38: init and reset leave the state without any of the sessions stored
\* before, and none of them comes back: list_sessions omits them and
\* delete_session returns false; get_session returns none with an agent, and
\* after reset, until the next init, the error that the agent is not
\* initialized. A chat call under way across the init or reset writes both
\* messages of its turn to the replaced store and returns success, and no
\* session of the state ever holds them.
C38_ReplacedStoreUnreachable ==
    /\ []C38_State
    /\ [][/\ C38_ReplaceAct
          /\ C38_LookupAct
          /\ C38_AcrossAct
          /\ CallReturns("get_session") => ~agent.some /\ cmd'.err = "AgentNotInitialized"
          /\ Calls("get_session") => agent.some]_vars

\* reset was called while a chat call on "s1" was under way: the call has
\* returned, its turn is in the store that was replaced, the state stores no
\* session, and get_session has returned the error.
C38_Witness ==
    /\ ChatReturned
    /\ Across
    /\ "s1" \in DOMAIN detached.store
    /\ Len(detached.store["s1"].messages) = 4
    /\ as_text(detached.store["s1"].messages[3].content) = CallText(1)
    /\ sessions = EmptyStore
    /\ ~agent.some
    /\ cmd.name = "get_session"
    /\ cmd.err = "AgentNotInitialized"

=============================================================================
